---- MODULE Spec2Model ----
(***************************************************************************)
(* Pinterval server: the pin aggregation / normalisation / image-proxy     *)
(* core of src/unnamed/part_000 (the Express server with /api/me/pins),    *)
(* as a state machine.  Every request handler is an async function; a      *)
(* request is suspended at each await of fetchWithTimeout and resumed by   *)
(* the settlement of that outbound call.  The upstream (Pinterest, image   *)
(* CDN) is the environment: each settlement is chosen nondeterministically.*)
(***************************************************************************)
EXTENDS Integers, Sequences, FiniteSets, TLC

(***************************************************************************)
(* JavaScript values.                                                      *)
(*   Null  - null / undefined / an absent property.                        *)
(*   NaN   - the Number NaN; every comparison with it is false and every   *)
(*           arithmetic result involving it is NaN.                        *)
(***************************************************************************)
Null == "<null>"

NaN == -999999999

Falsy(s) == s \in {Null, ""}

IsNaN(x) == x = NaN

\* Math.min / Math.max of two Numbers
MathMin(a, b) == IF IsNaN(a) \/ IsNaN(b) THEN NaN ELSE IF a <= b THEN a ELSE b

MathMax(a, b) == IF IsNaN(a) \/ IsNaN(b) THEN NaN ELSE IF a >= b THEN a ELSE b

\* a - b
Minus(a, b) == IF IsNaN(a) \/ IsNaN(b) THEN NaN ELSE a - b

\* a < b and a >= b on Numbers (both false when either side is NaN)
Lt(a, b) == ~IsNaN(a) /\ ~IsNaN(b) /\ a < b

Ge(a, b) == ~IsNaN(a) /\ ~IsNaN(b) /\ a >= b

\* x || 0 on a Number
OrZero(x) == IF IsNaN(x) \/ x = 0 THEN 0 ELSE x

\* Array.prototype.slice(0, n): ToIntegerOrInfinity(NaN) = 0
Slice0(s, n) ==
  IF IsNaN(n) \/ n <= 0 THEN <<>>
  ELSE IF n >= Len(s) THEN s ELSE SubSeq(s, 1, n)

(***************************************************************************)
(* Strings: TLC gives Len, \o and SubSeq on strings.                       *)
(***************************************************************************)
Char(s, i) == SubSeq(s, i, i)

Digits == <<"0", "1", "2", "3", "4", "5", "6", "7", "8", "9">>

IsDigit(c) == \E d \in 1..10 : Digits[d] = c

DigitVal(c) == (CHOOSE d \in 1..10 : Digits[d] = c) - 1

AllDigits(s) == \A i \in 1..Len(s) : IsDigit(Char(s, i))

RECURSIVE DecimalValue(_)
\* the value of a non-empty string of decimal digits
DecimalValue(s) ==
  IF Len(s) = 0 THEN 0
  ELSE 10 * DecimalValue(SubSeq(s, 1, Len(s) - 1)) + DigitVal(Char(s, Len(s)))

\* Number(str) for the query strings of QueryLimits: optional sign and
\* decimal digits give the integer, "" gives 0, anything else NaN.
ToNumber(s) ==
  IF Len(s) = 0 THEN 0
  ELSE IF AllDigits(s) THEN DecimalValue(s)
  ELSE IF Len(s) > 1 /\ Char(s, 1) = "-" /\ AllDigits(SubSeq(s, 2, Len(s)))
       THEN 0 - DecimalValue(SubSeq(s, 2, Len(s)))
  ELSE NaN

(***************************************************************************)
(* Image-variant selector and pin normaliser.                              *)
(* A variant map is the sequence of its entries in Object.entries order;   *)
(* an entry is [key, url, width, height], width/height being a Number or   *)
(* NoDim when the field is not a number.                                   *)
(***************************************************************************)
NoDim == -1

SentinelScore == 999999

\* String(key).match(/(\d+)/): the first maximal run of digits, "" if none
FirstDigitRun(key) ==
  IF \A i \in 1..Len(key) : ~IsDigit(Char(key, i)) THEN ""
  ELSE LET start == CHOOSE i \in 1..Len(key) :
                      /\ IsDigit(Char(key, i))
                      /\ \A j \in 1..(i - 1) : ~IsDigit(Char(key, j))
           stop  == CHOOSE j \in start..Len(key) :
                      /\ \A k \in start..j : IsDigit(Char(key, k))
                      /\ (j = Len(key) \/ ~IsDigit(Char(key, j + 1)))
       IN SubSeq(key, start, stop)

\* the score pickBestImageVariant gives one entry
VariantScore(v) ==
  LET w == IF v.width = NoDim THEN 0 ELSE v.width
      h == IF v.height = NoDim THEN 0 ELSE v.height
  IN IF w # 0 /\ h # 0 THEN w * h
     ELSE IF FirstDigitRun(v.key) # "" THEN DecimalValue(FirstDigitRun(v.key))
     ELSE SentinelScore

\* (variant: a later variant of equal score replaces the best one)
RECURSIVE BestVariantLast(_, _, _, _)
BestVariantLast(images, i, bestUrl, bestScore) ==
  IF i > Len(images) THEN bestUrl
  ELSE IF Falsy(images[i].url) THEN BestVariantLast(images, i + 1, bestUrl, bestScore)
  ELSE IF VariantScore(images[i]) >= bestScore
       THEN BestVariantLast(images, i + 1, images[i].url, VariantScore(images[i]))
       ELSE BestVariantLast(images, i + 1, bestUrl, bestScore)

RECURSIVE BestVariantFrom(_, _, _, _)
BestVariantFrom(images, i, bestUrl, bestScore) ==
  IF i > Len(images) THEN bestUrl
  ELSE IF Falsy(images[i].url) THEN BestVariantFrom(images, i + 1, bestUrl, bestScore)
  ELSE IF VariantScore(images[i]) > bestScore
       THEN BestVariantFrom(images, i + 1, images[i].url, VariantScore(images[i]))
       ELSE BestVariantFrom(images, i + 1, bestUrl, bestScore)

\* images is a variant map, or <<>> standing for "no such field"
pickBestImageVariant(images) == BestVariantFrom(images, 1, Null, -1)

\* an element of json.items that is null: [isNull |-> TRUE]
IsNullItem(p) == "isNull" \in DOMAIN p

\* a raw pin is [id, media_images, images, image_url, thumbnail_url]
pickImageUrlFromPin(pin) ==
  IF IsNullItem(pin) THEN Null
  ELSE IF ~Falsy(pickBestImageVariant(pin.media_images))
    THEN pickBestImageVariant(pin.media_images)
  ELSE IF ~Falsy(pickBestImageVariant(pin.images))
    THEN pickBestImageVariant(pin.images)
  ELSE IF ~Falsy(pin.image_url) THEN pin.image_url
  ELSE IF ~Falsy(pin.thumbnail_url) THEN pin.thumbnail_url
  ELSE Null

\* the value Math.random() contributes to an id
RandomId == "<random>"

\* p.id is a string (field id) or a Number (field idNumber, id being Null)
HasNumberId(p) == "idNumber" \in DOMAIN p

\* p.id as the left operand of ||: 0 and "" are falsy like a missing id
IdTruthy(p) == IF HasNumberId(p) THEN p.idNumber # 0 ELSE ~Falsy(p.id)

\* String(p.id)
IdString(p) == IF HasNumberId(p) THEN ToString(p.idNumber) ELSE p.id

\* (variant: a pin without id gets the random id whatever its image is)
NormalizeOneRandomFirst(p) ==
  [id    |-> IF IdTruthy(p) THEN IdString(p) ELSE RandomId,
   image |-> pickImageUrlFromPin(p)]

\* the record .map() builds for one raw pin (title and link do not take part
\* in any control decision and are left out of the record):
\* id: String(p.id || image || Math.random())
NormalizeOne(p) ==
  LET image == pickImageUrlFromPin(p)
  IN [id    |-> IF IdTruthy(p) THEN IdString(p)
                ELSE IF ~Falsy(image) THEN image ELSE RandomId,
      image |-> image]

\* .filter((p) => !!p.image)
HasImage(p) == ~Falsy(p.image)

FilterImage(recs) == SelectSeq(recs, HasImage)

\* json is [isArray, items, bookmark, next_bookmark]: items is the sequence
\* of raw pins, isArray says whether json.items is an array at all
normalizePinsFromPinterest(json) ==
  LET items == IF json.isArray THEN json.items ELSE <<>>
  IN FilterImage([i \in 1..Len(items) |-> NormalizeOne(items[i])])

\* p.id in the callback of .map() throws a TypeError when p is null
NormalizeThrows(json) ==
  json.isArray /\ \E i \in 1..Len(json.items) : IsNullItem(json.items[i])

\* json?.bookmark || json?.next_bookmark || null
NextBookmark(json) ==
  IF ~Falsy(json.bookmark) THEN json.bookmark
  ELSE IF ~Falsy(json.next_bookmark) THEN json.next_bookmark
  ELSE Null

(***************************************************************************)
(* Program constants.                                                      *)
(***************************************************************************)
MaxPagedLoops == 50          \* fetchPinsPaged: loops < 50

MaxSafeLimit == 500          \* fetchPinsPaged / routes: clamp to 500

MaxPageSize == 50            \* fetchPinsPaged: Math.min(safeLimit, 50)

MaxBoardLoops == 20          \* /api/me/pins: loops < 20

MaxBoardCount == 500         \* /api/me/pins: boards.length < 500

BoardPageSize == 100         \* /api/me/pins: page_size: '100'

PerBoardCap == 200           \* /api/me/pins: Math.min(200, limit - out.length)

DefaultLimit == 120          \* Number(req.query.limit || 120)

(***************************************************************************)
(* Bounds of the model and the inputs the environment draws from.          *)
(***************************************************************************)
\* the boards the upstream account holds in all
MaxBoards == 3

\* the pages one board's pin collection has when it is read by /api/me/pins
MaxBoardPinPages == 2

NoImages == <<>>

RawPin(id, media, images, image_url, thumb) ==
  [id |-> id, media_images |-> media, images |-> images,
   image_url |-> image_url, thumbnail_url |-> thumb]

Variant(key, url, w, h) == [key |-> key, url |-> url, width |-> w, height |-> h]

PinA == RawPin("a", NoImages, NoImages, "ua", Null)

PinB == RawPin("b", NoImages,
               <<Variant("150x150", "ub-small", NoDim, NoDim),
                 Variant("orig", "ub", NoDim, NoDim)>>, Null, Null)

PinC == RawPin("c", <<Variant("600x", "uc", 600, 900)>>, NoImages, Null, "uc-thumb")

PinD == RawPin("d", NoImages, NoImages, Null, "ud")

\* a second upstream object with the id of PinA and another image
PinA2 == RawPin("a", NoImages, NoImages, "ua2", Null)

\* no id: the image URL becomes the id
PinNoId == RawPin(Null, NoImages, NoImages, "ue", Null)

\* no image-bearing field: dropped by the normaliser
PinNoImage == RawPin("x", NoImages, <<Variant("orig", Null, 10, 10)>>, Null, Null)

\* the items arrays the upstream answers a pins page with, when
\* fetchPinsPaged is called on its own
PinPages ==
  { <<>>, <<PinA, PinA2>>, <<PinA, PinB>>, <<PinB, PinA2>>, <<PinNoImage, PinNoId>> }

\* ... and when a board is read by /api/me/pins
BoardPinPages ==
  { <<>>, <<PinA>>, <<PinB, PinA>>, <<PinA, PinD>>, <<PinA, PinD, PinB>>,
    <<PinC, PinB>> }

\* the (bookmark, next_bookmark) fields of an upstream JSON body
BookmarkFields == { <<Null, Null>>, <<"bm1", Null>>, <<"", "bm2">> }

JsonsOf(pages) ==
  { [isArray |-> TRUE, items |-> pg, bookmark |-> bf[1], next_bookmark |-> bf[2]] :
      pg \in pages, bf \in BookmarkFields }
  \cup { [isArray |-> FALSE, items |-> <<>>, bookmark |-> "bm1", next_bookmark |-> Null] }

\* the account with many boards ("wide"): every page of the boards listing
\* holds WidePageLen boards and a bookmark, and every board is empty
WidePageLen == 99

\* two requests served at once: the limits they ask for, and what the
\* upstream answers them: one page of two boards, and per board one page
PairLimits == {"2", "4"}

PairJsons ==
  { [isArray |-> TRUE, items |-> pg, bookmark |-> Null, next_bookmark |-> Null] :
      pg \in { <<PinA>>, <<PinB, PinA>>, <<PinA, PinD>> } }

\* the account read while the user logs in again ("relogin"): the boards
\* listing has two pages of one board, a board's pins two pages
ReloginLimits == {"4"}

ReloginJsons(page) ==
  IF page = 1
    THEN { [isArray |-> TRUE, items |-> <<PinA>>, bookmark |-> "bm1", next_bookmark |-> Null] }
  ELSE { [isArray |-> TRUE, items |-> pg, bookmark |-> Null, next_bookmark |-> Null] :
           pg \in { <<PinB>>, <<PinA, PinD>> } }

\* an upstream that misbehaves ("live"): a pins page may be empty or not
\* and carry a bookmark every time, or be the last one
LiveLimits == {"2"}

LiveJsons ==
  { [isArray |-> TRUE, items |-> <<>>, bookmark |-> "bm1", next_bookmark |-> Null],
    [isArray |-> TRUE, items |-> <<PinA>>, bookmark |-> "bm1", next_bookmark |-> Null],
    [isArray |-> TRUE, items |-> <<PinB, PinA>>, bookmark |-> Null, next_bookmark |-> Null] }

\* the boards listing: the account holds the boards 1..MaxBoards (a board
\* object is its id; 0 is an object whose id is missing or falsy)
NoBoardId == 0

BoardPageLens == {0, 1, 2}

\* upstream non-success answers: status and body text ("" also when reading
\* the body fails: .text().catch(() => ''))
NotOkAnswers ==
  { [status |-> 404, details |-> ""], [status |-> 500, details |-> "upstream says no"] }

\* req.query.limit of the routes
QueryLimits == {Null, "abc", "0", "2", "4", "500"}

\* the limit argument of a direct call of fetchPinsPaged
CountInputs == {NaN, -1, 0, 2, 501}

\* upstream collections of numbered pins, served page by page
PinNumbered(n) == RawPin(ToString(n), NoImages, NoImages, "u" \o ToString(n), Null)

PageOf(from, len, bookmark) ==
  [isArray |-> TRUE, items |-> [i \in 1..len |-> PinNumbered(from + i - 1)],
   bookmark |-> bookmark, next_bookmark |-> Null]

\* 130 pins in pages of 50, 50 and 30: pages 1 and 2 carry a bookmark, page 3
\* carries none
Pages50Json(page) ==
  IF page <= 2 THEN PageOf(50 * (page - 1) + 1, 50, "bm" \o ToString(page))
  ELSE IF page = 3 THEN PageOf(101, 30, Null)
  ELSE PageOf(1, 0, Null)

\* 550 pins in eleven pages of 50: pages 1 to 10 carry a bookmark
Pages550Json(page) ==
  IF page <= 10 THEN PageOf(50 * (page - 1) + 1, 50, "bm" \o ToString(page))
  ELSE IF page = 11 THEN PageOf(501, 50, Null)
  ELSE PageOf(1, 0, Null)

\* the fixed upstreams a direct call of fetchPinsPaged is run against, with
\* the limit it is called with
Scenarios == {"pages50", "pages550"}

ScenarioLimit(name) == IF name = "pages50" THEN 120 ELSE 501

ScenarioJson(name, page) ==
  IF name = "pages50" THEN Pages50Json(page) ELSE Pages550Json(page)

\* req.query.url of the image proxy, each with the class the WHATWG URL
\* rules and the allow-list put it in: "fetch" (absolute http(s) URL on an
\* allow-listed host), "400" (missing, unparseable or another scheme),
\* "403" (http(s) URL on another host).  The handler reads .url only.
UrlInputs ==
  { [url |-> Null,                                      class |-> "400"],
    [url |-> "   ",                                     class |-> "400"],
    [url |-> "i.pinimg.com/x.png",                      class |-> "400"],
    [url |-> "//i.pinimg.com/x.png",                    class |-> "400"],
    [url |-> "https://",                                class |-> "400"],
    [url |-> "1http://i.pinimg.com/",                   class |-> "400"],
    [url |-> "ftp://i.pinimg.com/x.png",                class |-> "400"],
    [url |-> "javascript:alert(1)",                     class |-> "400"],
    [url |-> "https://evil.example.com/x.png",          class |-> "403"],
    [url |-> "https://pinimg.com/x.png",                class |-> "403"],
    [url |-> "https://evilpinimg.com/x.png",            class |-> "403"],
    [url |-> "https://i.pinimg.com.evil.example/x.png", class |-> "403"],
    [url |-> "https://i.pinimg.com@evil.example.com/x", class |-> "403"],
    [url |-> "https://evil.example.com/.pinimg.com",    class |-> "403"],
    [url |-> "https://evil.example.com?u=.pinimg.com",  class |-> "403"],
    [url |-> "http://evil.example.com#.unsplash.com",   class |-> "403"],
    [url |-> "https://i.pinimg.com/x.png",              class |-> "fetch"],
    [url |-> "http://images.unsplash.com/photo",        class |-> "fetch"],
    [url |-> " https://www.pinterest.com/a.jpg ",       class |-> "fetch"],
    [url |-> "HTTPS://I.PINIMG.COM/x.png",              class |-> "fetch"],
    [url |-> "https://i.pinimg.com:8080/x.png",         class |-> "fetch"],
    [url |-> "https:i.pinimg.com/x.png",                class |-> "fetch"] }

\* the content-length header of the image upstream (Null: no such header)
ContentLengths == {Null, "0", "1000", "26214400", "26214401", "31457280", "abc"}

ReqIds == {1, 2}

(***************************************************************************)
(* State.                                                                  *)
(*   req[r]             the locals of the handler serving request r, its   *)
(*                      position (pc), the outbound call it awaits (call)  *)
(*                      and the response it has sent (status, items);      *)
(*   dynamicAccessToken the process-wide token the OAuth callback sets;    *)
(*   envToken           process.env.PINTEREST_ACCESS_TOKEN.                *)
(* Fields of req[r] whose name starts with "h" are history: they record    *)
(* what the upstream answered and what was asked, and no step reads them   *)
(* to decide anything.                                                     *)
(***************************************************************************)
VARIABLES req, dynamicAccessToken, envToken, calls, cache, useMock, pure

vars == <<req, dynamicAccessToken, envToken, calls, cache, useMock, pure>>

\* what a request handler of the pins and image routes leaves alone
beside == <<dynamicAccessToken, envToken, calls, cache, useMock, pure>>

NoCall == [kind |-> "none", page_size |-> 0, bookmark |-> Null, token |-> Null,
           target |-> Null]

NoErr == [status |-> 0, details |-> ""]

IdsOf(recs) == {recs[i].id : i \in 1..Len(recs)}

InitReq(route) ==
  [route |-> route, pc |-> "idle", accessToken |-> Null, limit |-> 0,
   \* /api/me/pins, board enumeration
   boards |-> <<>>, bBookmark |-> Null, bLoops |-> 0,
   \* /api/me/pins, fan-out
   out |-> <<>>, seen |-> {}, bi |-> 0,
   \* fetchPinsPaged
   safeLimit |-> 0, pageSize |-> 0, fOut |-> <<>>, fSeen |-> {},
   fBookmark |-> Null, fLoops |-> 0,
   \* the outbound call awaited, the response sent
   call |-> NoCall, status |-> 0, items |-> <<>>, streamed |-> FALSE,
   \* /api/image-proxy
   raw |-> Null, hUrlClass |-> Null, hImageCall |-> FALSE,
   hContentLength |-> Null, hUpstreamOk |-> FALSE,
   \* history of the current fetchPinsPaged call
   upstream |-> "any",
   hArg |-> 0, hPageCalls |-> 0, hServed |-> <<>>, hDup |-> FALSE,
   hLastFields |-> <<Null, Null>>, hOutAtIssue |-> 0, hNotOk |-> NoErr, hCallsAtNotOk |-> 0,
   hOutcome |-> "none", hErr |-> NoErr, hReturned |-> <<>>,
   \* history of the request
   hBoardsFailed |-> FALSE, hPinCall |-> FALSE, hBoardFailed |-> FALSE,
   hTried |-> 0, hReturnedAll |-> <<>>, hServedAll |-> <<>>,
   hSkipped |-> {}, hOverlap |-> FALSE, hTokens |-> {}, hLate |-> FALSE,
   hResponses |-> 0,
   \* /api/search: the trimmed q, the cache key, and of the response the
   \* source and the error text
   query |-> Null, key |-> Null, source |-> Null, error |-> Null,
   hNo |-> 0, hCalled |-> FALSE, hKnown |-> FALSE, hEntry |-> Null]

\* fetchWithTimeout calls that can be open at once
FetchIds == {1, 2, 3}

\* a fetchWithTimeout call that has not been made: no controller, no timer
NoFetch ==
  [pc |-> "idle", timer |-> "none", aborted |-> FALSE, fetch |-> "none",
   res |-> Null, err |-> Null, hResult |-> Null]

\* no pure function applied
NoPure == [fn |-> "none", done |-> FALSE]

Init ==
  /\ req = [r \in ReqIds |-> IF r = 1 THEN InitReq("new") ELSE InitReq("none")]
  /\ dynamicAccessToken = Null
  /\ envToken \in {Null, "tokEnv"}
  /\ calls = [c \in FetchIds |-> NoFetch]
  /\ cache = <<>>
  /\ useMock = FALSE
  /\ pure = NoPure

Set(r, q) == req' = [req EXCEPT ![r] = q]

\* res.status(code).json(body) / res.json(body): the handler returns
Respond(q, code, items) ==
  [q EXCEPT !.pc = "done", !.status = code, !.items = items, !.call = NoCall,
            !.hResponses = @ + 1]

\* dynamicAccessToken || process.env.PINTEREST_ACCESS_TOKEN
CurrentToken == IF ~Falsy(dynamicAccessToken) THEN dynamicAccessToken ELSE envToken

\* Math.min(Math.max(Number(req.query.limit || dflt), 1), 500)
RouteLimit(query, dflt) ==
  LET rawLimit == IF Falsy(query) THEN dflt ELSE ToNumber(query)
  IN MathMin(MathMax(rawLimit, 1), MaxSafeLimit)

\* the positions of s, in order
Indices(s) == [i \in 1..Len(s) |-> i]

\* append to s the records of recs whose id is not yet in s, in order
AppendNew(s, recs) ==
  LET fresh == SelectSeq(Indices(recs),
                         LAMBDA i : /\ recs[i].id \notin IdsOf(s)
                                    /\ \A j \in 1..(i - 1) : recs[j].id # recs[i].id)
  IN s \o [k \in 1..Len(fresh) |-> recs[fresh[k]]]

(***************************************************************************)
(* fetchPinsPaged                                                          *)
(***************************************************************************)
\* (variant: the count without the upper end of the clamp)
SafeLimitNoCeiling(limit) == MathMax(OrZero(limit), 1)

\* const safeLimit = Math.min(Math.max(Number(limit) || 0, 1), 500)
SafeLimit(limit) == MathMin(MathMax(OrZero(limit), 1), MaxSafeLimit)

\* const pageSize = Math.min(safeLimit, 50)
PageSize(safeLimit) == MathMin(safeLimit, MaxPageSize)

\* entry of fetchPinsPaged({endpointBase, accessToken, limit}): the locals
\* before the while loop
EnterPaged(q, limit) ==
  [q EXCEPT !.pc = "pLoop",
            !.safeLimit = SafeLimit(limit),
            !.pageSize = PageSize(SafeLimit(limit)),
            !.fOut = <<>>, !.fSeen = {}, !.fBookmark = Null, !.fLoops = 0,
            !.hArg = limit, !.hPageCalls = 0, !.hServed = <<>>, !.hDup = FALSE,
            !.hLastFields = <<Null, Null>>, !.hOutAtIssue = 0, !.hNotOk = NoErr,
            !.hCallsAtNotOk = 0, !.hOutcome = "running", !.hErr = NoErr,
            !.hReturned = <<>>]

\* (variant: a loop that never skips a record)
SeenHasNothing(seen, recs, i) == FALSE

\* if (seen.has(p.id)) continue: when the loop reaches recs[i], seen holds
\* the ids it held before the loop and the id of every record before recs[i]
\* (each of them was either skipped for being in seen, or added to it)
SeenHas(seen, recs, i) ==
  recs[i].id \in seen \/ \E j \in 1..(i - 1) : recs[j].id = recs[i].id

\* if (out.length >= safeLimit) break: before the k-th push out holds
\* len + k - 1 records
BreaksBefore(len, k, safeLimit) == Ge(len + k - 1, safeLimit)

\* the for (const p of normalized) loop: the records it does not skip are
\* pushed in order until the break
PushAll(st, recs, safeLimit) ==
  LET unseen == SelectSeq(Indices(recs), LAMBDA i : ~SeenHas(st.seen, recs, i))
      pushed == {k \in 1..Len(unseen) : ~BreaksBefore(Len(st.out), k, safeLimit)}
      new == [k \in 1..Cardinality(pushed) |-> recs[unseen[k]]]
  IN [out |-> st.out \o new,
      seen |-> st.seen \cup {new[k].id : k \in 1..Len(new)}]

\* (variant: a merge loop that does not consult seen)
RECURSIVE MergeBoardNoSeen(_, _, _)
MergeBoardNoSeen(st, pins, limit) ==
  IF pins = <<>> THEN st
  ELSE IF Ge(Len(st.out), limit) THEN st
  ELSE MergeBoardNoSeen([st EXCEPT !.out = Append(@, Head(pins)),
                                   !.seen = @ \cup {Head(pins).id}], Tail(pins), limit)

\* (variant: a merge loop that puts a board's new pins in front)
RECURSIVE MergeBoardInFront(_, _, _)
MergeBoardInFront(st, pins, limit) ==
  IF pins = <<>> THEN st
  ELSE IF Ge(Len(st.out), limit) THEN st
  ELSE IF Head(pins).id \in st.seen
    THEN MergeBoardInFront([st EXCEPT !.skipped = @ \cup {Head(pins).id}],
                           Tail(pins), limit)
  ELSE MergeBoardInFront([st EXCEPT !.out = <<Head(pins)>> \o @,
                                    !.seen = @ \cup {Head(pins).id}], Tail(pins), limit)

\* the merge loop of /api/me/pins over the pins one board returned
RECURSIVE MergeBoard(_, _, _)
MergeBoard(st, pins, limit) ==
  IF pins = <<>> THEN st
  ELSE IF Ge(Len(st.out), limit) THEN st
  ELSE IF Head(pins).id \in st.seen
    THEN MergeBoard([st EXCEPT !.skipped = @ \cup {Head(pins).id}], Tail(pins), limit)
  ELSE MergeBoard([st EXCEPT !.out = Append(@, Head(pins)),
                             !.seen = @ \cup {Head(pins).id}], Tail(pins), limit)

\* the locals of fetchPinsPaged end with the call
PopFrame(q) ==
  [q EXCEPT !.safeLimit = 0, !.pageSize = 0, !.fOut = <<>>, !.fSeen = {},
            !.fBookmark = Null, !.fLoops = 0, !.call = NoCall]

\* (variant: one set of seen ids for the whole process)
ProcessSeen(q) == UNION {req[o].seen : o \in ReqIds}

\* const seen = new Set() inside the handler: the set of the request
RequestSeen(q) == q.seen

\* fetchPinsPaged returns pins to its caller
ReturnPaged(q, pins) ==
  LET h == [PopFrame(q) EXCEPT !.hOutcome = "returned", !.hReturned = pins]
  IN IF q.route = "mePins"
       THEN LET m == MergeBoard([out |-> q.out, seen |-> RequestSeen(q), skipped |-> q.hSkipped],
                                pins, q.limit)
            IN [h EXCEPT !.pc = "forLoop", !.bi = @ + 1,
                         !.out = m.out, !.seen = m.seen, !.hSkipped = m.skipped,
                         !.hReturnedAll = AppendNew(@, pins),
                         !.hServedAll = AppendNew(@, q.hServed)]
     ELSE [h EXCEPT !.pc = "done", !.items = pins]

\* (variant: a failing page ends the call with what it has so far)
ReturnsPartial(q, err) == ReturnPaged(q, q.fOut)

\* fetchPinsPaged throws err to its caller
ThrowPaged(q, err) ==
  LET h == [PopFrame(q) EXCEPT !.hOutcome = "threw", !.hErr = err]
  IN IF q.route = "mePins"
       THEN [h EXCEPT !.pc = "forLoop", !.bi = @ + 1, !.hBoardFailed = TRUE]
     ELSE [h EXCEPT !.pc = "done"]

\* (variant: the header is built from the process-wide token at each call)
CallTokenCurrent(q) == IF ~Falsy(dynamicAccessToken) THEN dynamicAccessToken ELSE envToken

\* Authorization: `Bearer ${accessToken}`: the const of the handler, handed
\* to fetchPinsPaged as a parameter
CallToken(q) == q.accessToken

\* history of an upstream call being issued: the token it carries, and
\* whether the process-wide token differs from the handler's at that moment
IssueCall(q, call) ==
  [q EXCEPT !.call = call,
            !.hTokens = @ \cup {call.token},
            !.hLate = @ \/ (IF ~Falsy(dynamicAccessToken) THEN dynamicAccessToken
                              ELSE envToken) # q.accessToken]

\* (variants: the loop without its ceiling of 50 rounds, and the loop that
\* does not look at the count)
LoopConditionNoCeiling(q) == Lt(Len(q.fOut), q.safeLimit)

LoopConditionNoCount(q) == q.fLoops < MaxPagedLoops

\* while (out.length < safeLimit && loops < 50): the head of the loop; it
\* either issues the next page request (up to the await) or leaves the loop
\* and returns out.slice(0, safeLimit)
LoopCondition(q) == Lt(Len(q.fOut), q.safeLimit) /\ q.fLoops < MaxPagedLoops

PagedLoop(r) ==
  LET q == req[r]
  IN /\ q.pc = "pLoop"
     /\ IF LoopCondition(q)
          THEN Set(r, [IssueCall(q, [kind |-> "pins", page_size |-> q.pageSize,
                                         bookmark |-> q.fBookmark,
                                         token |-> CallToken(q),
                                         target |-> IF q.route = "mePins"
                                                      THEN q.boards[q.bi] ELSE "b0"])
                         EXCEPT !.pc = "pAwait",
                                !.fLoops = @ + 1,
                                !.hPageCalls = @ + 1,
                                !.hOutAtIssue = Len(q.fOut),
                                !.hPinCall = TRUE])
          ELSE Set(r, ReturnPaged(q, Slice0(q.fOut, q.safeLimit)))
     /\ UNCHANGED beside

\* the page request settles with a success status and a JSON body
PagedPage(q, json) ==
  LET normalized == normalizePinsFromPinterest(json)
      st == PushAll([out |-> q.fOut, seen |-> q.fSeen], normalized, q.safeLimit)
      bookmark == NextBookmark(json)
      q1 == [q EXCEPT !.fOut = st.out, !.fSeen = st.seen, !.fBookmark = bookmark,
                      !.call = NoCall,
                      !.hServed = AppendNew(@, normalized),
                      !.hDup = @ \/ Len(AppendNew(q.hServed, normalized))
                                      < Len(q.hServed) + Len(normalized),
                      !.hLastFields = <<json.bookmark, json.next_bookmark>>]
  IN IF Falsy(bookmark) THEN ReturnPaged(q1, Slice0(q1.fOut, q1.safeLimit))
     ELSE [q1 EXCEPT !.pc = "pLoop"]

\* what the upstream may answer a pins page with: when a board is read by
\* /api/me/pins its collection ends after MaxBoardPinPages pages
MayServe(q, json) ==
  (q.route = "mePins" /\ q.upstream # "live" /\ q.fLoops >= MaxBoardPinPages)
    => Falsy(NextBookmark(json))

\* await fetchWithTimeout(...) settles with an ok response whose body parses
PagedSettleOk(r) ==
  LET q == req[r]
  IN /\ q.pc = "pAwait"
     /\ \E json \in IF q.upstream \in Scenarios THEN {ScenarioJson(q.upstream, q.fLoops)}
                     ELSE IF q.upstream = "pair" THEN PairJsons
                     ELSE IF q.upstream = "relogin" THEN ReloginJsons(q.fLoops)
                     ELSE IF q.upstream = "live" THEN LiveJsons
                     ELSE IF q.upstream = "wide" THEN {PageOf(1, 0, Null)}
                     ELSE JsonsOf(IF q.route = "mePins" THEN BoardPinPages ELSE PinPages) :
          /\ MayServe(q, json)
          /\ Set(r, PagedPage(q, json))
     /\ UNCHANGED beside

\* ... with a non-success status: throw an Error carrying status and body
PagedSettleNotOk(r) ==
  LET q == req[r]
  IN /\ q.pc = "pAwait" /\ q.upstream \in {"any", "live"}
     /\ \E answer \in NotOkAnswers :
          Set(r, ThrowPaged([q EXCEPT !.hNotOk = answer,
                                      !.hCallsAtNotOk = q.hPageCalls],
                            [status |-> answer.status, details |-> answer.details]))
     /\ UNCHANGED beside

\* ... by rejecting (timeout abort, network error), or the body is no JSON:
\* the rejection propagates out of fetchPinsPaged
PagedSettleReject(r) ==
  LET q == req[r]
  IN /\ q.pc = "pAwait" /\ q.upstream \in {"any", "pair", "relogin", "live"}
     /\ Set(r, ThrowPaged(q, [status |-> 0, details |-> "rejected"]))
     /\ UNCHANGED beside

\* a direct call fetchPinsPaged({limit}) with any limit argument (as its
\* callers do, with the token they found configured), against an upstream
\* that answers anything, or against one of the fixed upstreams of Scenarios
CallPaged(r) ==
  LET q == req[r]
  IN /\ q.route = "new" /\ q.pc = "idle"
     /\ ~Falsy(CurrentToken)
     /\ \/ \E limit \in CountInputs :
             Set(r, EnterPaged([q EXCEPT !.route = "paged", !.accessToken = CurrentToken],
                               limit))
        \/ \E name \in Scenarios :
             Set(r, EnterPaged([q EXCEPT !.route = "paged", !.accessToken = CurrentToken,
                                         !.upstream = name],
                               ScenarioLimit(name)))
     /\ UNCHANGED beside

(***************************************************************************)
(* GET /api/me/pins                                                        *)
(***************************************************************************)
MePinsStart(r) ==
  LET q == req[r]
  IN /\ q.route = "new" /\ q.pc = "idle"
     /\ IF Falsy(CurrentToken)
          THEN Set(r, Respond([q EXCEPT !.route = "mePins"], 500, <<>>))
          ELSE \E query \in IF q.upstream = "pair" THEN PairLimits
                            ELSE IF q.upstream = "relogin" THEN ReloginLimits
                            ELSE IF q.upstream = "live" THEN LiveLimits
                            ELSE QueryLimits,
                  upstream \in IF q.upstream \in {"pair", "relogin", "live"}
                                 THEN {q.upstream}
                               ELSE {"any", "wide"} :
                 /\ upstream = "wide" => query = Null
                 /\ Set(r, [q EXCEPT !.route = "mePins", !.pc = "bLoop",
                                     !.upstream = upstream,
                                     !.accessToken = CurrentToken,
                                     !.limit = RouteLimit(query, DefaultLimit),
                                     !.boards = <<>>, !.bBookmark = Null, !.bLoops = 0])
     /\ UNCHANGED beside

\* after the enumeration loop (its locals bookmark and loops are dead from
\* here on): no board gives an empty success response, otherwise the fan-out
\* starts with the first board
AfterBoards(q) ==
  LET q1 == [q EXCEPT !.bBookmark = Null, !.bLoops = 0, !.call = NoCall]
  IN IF Len(q.boards) = 0 THEN Respond(q1, 200, <<>>)
     ELSE [q1 EXCEPT !.pc = "forLoop", !.out = <<>>, !.seen = {}, !.bi = 1]

\* while (boards.length < 500 && loops < 20): the head of the loop
BoardsLoop(r) ==
  LET q == req[r]
  IN /\ q.pc = "bLoop"
     /\ IF Len(q.boards) < MaxBoardCount /\ q.bLoops < MaxBoardLoops
          THEN Set(r, [IssueCall(q, [kind |-> "boards", page_size |-> BoardPageSize,
                                         bookmark |-> q.bBookmark,
                                         token |-> CallToken(q), target |-> Null])
                         EXCEPT !.pc = "bAwait", !.bLoops = @ + 1])
          ELSE Set(r, AfterBoards(q))
     /\ UNCHANGED beside

\* for (const b of items) { if (!b?.id) continue; boards.push(...) }
PushBoards(boards, items) == boards \o SelectSeq(items, LAMBDA b : b # NoBoardId)

BoardsPage(q, json) ==
  LET items == IF json.isArray THEN json.items ELSE <<>>
      bookmark == NextBookmark(json)
      q1 == [q EXCEPT !.boards = PushBoards(@, items), !.bBookmark = bookmark,
                      !.call = NoCall]
  IN IF Falsy(bookmark) THEN AfterBoards(q1) ELSE [q1 EXCEPT !.pc = "bLoop"]

\* the boards page settles with a success status: the next k boards of the
\* account, possibly behind an object without id
BoardsSettleOk(r) ==
  LET q == req[r]
  IN /\ q.pc = "bAwait"
     /\ \E k \in BoardPageLens \cup {WidePageLen}, noId \in BOOLEAN, isArray \in BOOLEAN,
           bf \in BookmarkFields :
          /\ IF q.upstream = "wide"
               THEN k = WidePageLen /\ ~noId /\ isArray /\ bf = <<"bm1", Null>>
               ELSE k # WidePageLen /\ Len(q.boards) + k <= MaxBoards
          /\ q.upstream = "pair" =>
               (k = 2 /\ ~noId /\ isArray /\ bf = <<Null, Null>>)
          /\ q.upstream = "relogin" =>
               (k = 1 /\ ~noId /\ isArray
                /\ bf = IF q.bLoops = 1 THEN <<"bm1", Null>> ELSE <<Null, Null>>)
          /\ ~isArray => (k = 0 /\ ~noId)
          /\ Set(r, BoardsPage(q,
                  [isArray |-> isArray,
                   items |-> (IF noId THEN <<NoBoardId>> ELSE <<>>)
                             \o [i \in 1..k |-> Len(q.boards) + i],
                   bookmark |-> bf[1], next_bookmark |-> bf[2]]))
     /\ UNCHANGED beside

\* (variant: a failing boards page ends the enumeration with the boards
\* collected so far)
BoardsSettleNotOkTolerated(r) ==
  LET q == req[r]
  IN /\ q.pc = "bAwait"
     /\ Set(r, AfterBoards([q EXCEPT !.hBoardsFailed = TRUE]))
     /\ UNCHANGED beside

\* ... with a non-success status: 502 at once
BoardsSettleNotOk(r) ==
  LET q == req[r]
  IN /\ q.pc = "bAwait"
     /\ Set(r, Respond([q EXCEPT !.hBoardsFailed = TRUE], 502, <<>>))
     /\ UNCHANGED beside

\* ... by rejecting (timeout, network error), or its body is no JSON: the
\* outer catch answers 502
BoardsSettleReject(r) ==
  LET q == req[r]
  IN /\ q.pc = "bAwait"
     /\ Set(r, Respond([q EXCEPT !.hBoardsFailed = TRUE], 502, <<>>))
     /\ UNCHANGED beside

\* (variant: every board is asked for the whole limit)
BoardQuotaWhole(q) == q.limit

\* limit: Math.min(200, limit - out.length)
BoardQuota(q) == MathMin(PerBoardCap, Minus(q.limit, Len(q.out)))

\* for (const b of boards) { if (out.length >= limit) break; ... }: the head
\* of the loop; after the loop res.json({ ok: true, items: out.slice(0, limit) })
ForLoop(r) ==
  LET q == req[r]
  IN /\ q.pc = "forLoop"
     /\ IF q.bi > Len(q.boards) \/ Ge(Len(q.out), q.limit)
          THEN Set(r, Respond(q, 200, Slice0(q.out, q.limit)))
          ELSE Set(r, [EnterPaged(q, BoardQuota(q))
                         EXCEPT !.hTried = @ + 1,
                                !.hOverlap = @ \/ \E o \in ReqIds \ {r} :
                                                    /\ req[o].pc \notin {"idle", "done"}
                                                    /\ req[o].seen # {}])
     /\ UNCHANGED beside

(***************************************************************************)
(* GET /api/image-proxy                                                    *)
(***************************************************************************)
ALLOWED_IMAGE_HOST_SUFFIXES == <<".pinimg.com", ".pinterest.com", ".unsplash.com">>

ImageSizeCeiling == 26214400      \* 25 * 1024 * 1024

UpperCase == "ABCDEFGHIJKLMNOPQRSTUVWXYZ"

LowerCase == "abcdefghijklmnopqrstuvwxyz"

IsAlpha(c) == \E i \in 1..26 : Char(UpperCase, i) = c \/ Char(LowerCase, i) = c

LowerChar(c) ==
  IF \E i \in 1..26 : Char(UpperCase, i) = c
    THEN Char(LowerCase, CHOOSE i \in 1..26 : Char(UpperCase, i) = c)
  ELSE c

\* String.prototype.toLowerCase, character by character (the string is
\* walked in halves)
RECURSIVE ToLowerCase(_)
ToLowerCase(str) ==
  IF Len(str) = 0 THEN ""
  ELSE IF Len(str) = 1 THEN LowerChar(str)
  ELSE ToLowerCase(SubSeq(str, 1, Len(str) \div 2))
         \o ToLowerCase(SubSeq(str, Len(str) \div 2 + 1, Len(str)))

\* String.prototype.trim (of spaces)
RECURSIVE Trim(_)
Trim(str) ==
  IF Len(str) = 0 THEN ""
  ELSE IF Char(str, 1) = " " THEN Trim(SubSeq(str, 2, Len(str)))
  ELSE IF Char(str, Len(str)) = " " THEN Trim(SubSeq(str, 1, Len(str) - 1))
  ELSE str

EndsWith(str, suf) ==
  Len(suf) <= Len(str) /\ SubSeq(str, Len(str) - Len(suf) + 1, Len(str)) = suf

\* the position of the first character of str that is in chars, 0 if none
FirstOf(str, chars) ==
  IF \E i \in 1..Len(str) : Char(str, i) \in chars
    THEN CHOOSE i \in 1..Len(str) :
           Char(str, i) \in chars /\ \A j \in 1..(i - 1) : Char(str, j) \notin chars
  ELSE 0

\* the position of the last character of str that is in chars, 0 if none
LastOf(str, chars) ==
  IF \E i \in 1..Len(str) : Char(str, i) \in chars
    THEN CHOOSE i \in 1..Len(str) :
           Char(str, i) \in chars /\ \A j \in (i + 1)..Len(str) : Char(str, j) \notin chars
  ELSE 0

RECURSIVE SkipSlashes(_)
SkipSlashes(str) ==
  IF Len(str) > 0 /\ Char(str, 1) \in {"/", "\\"}
    THEN SkipSlashes(SubSeq(str, 2, Len(str)))
  ELSE str

SchemeChar(c) == IsAlpha(c) \/ IsDigit(c) \/ c \in {"+", "-", "."}

SpecialSchemes == {"http", "https", "ftp", "ws", "wss"}

URLFailure == [ok |-> FALSE, protocol |-> "", hostname |-> ""]

\* new URL(raw) without a base, for the inputs of UrlInputs: the scheme up to
\* the first ":", and for a special scheme the host between the slashes and
\* the first of / \ ? #, without userinfo and port, in lower case
ParseURL(raw) ==
  LET colon == FirstOf(raw, {":"})
      scheme == ToLowerCase(SubSeq(raw, 1, colon - 1))
      rest == SkipSlashes(SubSeq(raw, colon + 1, Len(raw)))
      stop == FirstOf(rest, {"/", "\\", "?", "#"})
      authority == IF stop = 0 THEN rest ELSE SubSeq(rest, 1, stop - 1)
      at == LastOf(authority, {"@"})
      hostport == SubSeq(authority, at + 1, Len(authority))
      portAt == LastOf(hostport, {":"})
      host == IF portAt = 0 THEN hostport ELSE SubSeq(hostport, 1, portAt - 1)
      port == IF portAt = 0 THEN "" ELSE SubSeq(hostport, portAt + 1, Len(hostport))
  IN IF colon <= 1 THEN URLFailure
     ELSE IF ~IsAlpha(Char(raw, 1)) THEN URLFailure
     ELSE IF \E i \in 1..(colon - 1) : ~SchemeChar(Char(raw, i)) THEN URLFailure
     ELSE IF scheme \notin SpecialSchemes
       THEN [ok |-> TRUE, protocol |-> scheme \o ":", hostname |-> ""]
     ELSE IF Len(host) = 0 \/ ~AllDigits(port) THEN URLFailure
     ELSE [ok |-> TRUE, protocol |-> scheme \o ":", hostname |-> ToLowerCase(host)]

\* (variant: the suffix anywhere in the host name)
HostIncludesSuffix(hostname) ==
  \E i \in 1..Len(ALLOWED_IMAGE_HOST_SUFFIXES) :
    \E k \in 1..Len(hostname) :
      k + Len(ALLOWED_IMAGE_HOST_SUFFIXES[i]) - 1 <= Len(hostname)
        /\ SubSeq(hostname, k, k + Len(ALLOWED_IMAGE_HOST_SUFFIXES[i]) - 1)
             = ALLOWED_IMAGE_HOST_SUFFIXES[i]

isAllowedImageHost(hostname) ==
  LET h == ToLowerCase(IF Falsy(hostname) THEN "" ELSE hostname)
  IN \E i \in 1..Len(ALLOWED_IMAGE_HOST_SUFFIXES) :
       EndsWith(h, ALLOWED_IMAGE_HOST_SUFFIXES[i])

\* the handler up to its first await: validation, then the outbound fetch
ProxyValidate(q, query) ==
  LET raw == Trim(IF Falsy(query) THEN "" ELSE query)
      u == ParseURL(raw)
      q1 == [q EXCEPT !.route = "proxy", !.raw = raw]
  IN IF Falsy(raw) THEN Respond(q1, 400, <<>>)
     ELSE IF ~u.ok THEN Respond(q1, 400, <<>>)
     ELSE IF ~(u.protocol = "https:" \/ u.protocol = "http:") THEN Respond(q1, 400, <<>>)
     ELSE IF ~isAllowedImageHost(u.hostname) THEN Respond(q1, 403, <<>>)
     ELSE [q1 EXCEPT !.pc = "xAwait", !.hImageCall = TRUE,
                     !.call = [kind |-> "image", page_size |-> 0, bookmark |-> Null,
                               token |-> Null, target |-> raw]]

ProxyStart(r) ==
  LET q == req[r]
  IN /\ q.route = "new" /\ q.pc = "idle"
     /\ \E in \in UrlInputs :
          Set(r, [ProxyValidate(q, in.url) EXCEPT !.hUrlClass = in.class])
     /\ UNCHANGED beside

\* (variant: the guard also rejects a length equal to the ceiling)
TooLargeFromCeiling(len) == ~IsNaN(len) /\ len # 0 /\ len >= ImageSizeCeiling

\* if (len && len > 25 * 1024 * 1024)
TooLarge(len) == ~IsNaN(len) /\ len # 0 /\ len > ImageSizeCeiling

\* the image fetch settles with a success status: the size guard, then the
\* body is piped to the client (or read whole and sent when there is no
\* stream)
ProxySettleOk(r) ==
  LET q == req[r]
  IN /\ q.pc = "xAwait"
     /\ \E contentLength \in ContentLengths :
          LET len == IF Falsy(contentLength) THEN 0 ELSE ToNumber(contentLength)
              q1 == [q EXCEPT !.hContentLength = contentLength, !.hUpstreamOk = TRUE]
          IN IF TooLarge(len)
               THEN Set(r, Respond(q1, 413, <<>>))
             ELSE Set(r, [Respond(q1, 200, <<>>) EXCEPT !.streamed = TRUE])
     /\ UNCHANGED beside

\* ... with a non-success status, or by rejecting: 502
ProxySettleFail(r) ==
  LET q == req[r]
  IN /\ q.pc = "xAwait"
     /\ Set(r, Respond(q, 502, <<>>))
     /\ UNCHANGED beside

Next == \E r \in ReqIds :
  \/ CallPaged(r)
  \/ PagedLoop(r)
  \/ PagedSettleOk(r)
  \/ PagedSettleNotOk(r)
  \/ PagedSettleReject(r)
  \/ MePinsStart(r)
  \/ BoardsLoop(r)
  \/ BoardsSettleOk(r)
  \/ BoardsSettleNotOk(r)
  \/ BoardsSettleReject(r)
  \/ ForLoop(r)
  \/ ProxyStart(r)
  \/ ProxySettleOk(r)
  \/ ProxySettleFail(r)

Spec == Init /\ [][Next]_vars

\* ---------------------------------------------------------------------
\* Two GET /api/me/pins requests served at once: the handlers interleave
\* at every await.
\* ---------------------------------------------------------------------
InitPair ==
  /\ req = [r \in ReqIds |-> [InitReq("new") EXCEPT !.upstream = "pair"]]
  /\ dynamicAccessToken = Null
  /\ envToken = "tokEnv"
  /\ calls = [c \in FetchIds |-> NoFetch]
  /\ cache = <<>>
  /\ useMock = FALSE
  /\ pure = NoPure

NextPair == \E r \in ReqIds :
  \/ MePinsStart(r)
  \/ BoardsLoop(r)
  \/ BoardsSettleOk(r)
  \/ ForLoop(r)
  \/ PagedLoop(r)
  \/ PagedSettleOk(r)
  \/ PagedSettleReject(r)

SpecPair == InitPair /\ [][NextPair]_vars

\* ---------------------------------------------------------------------
\* GET /api/me/pins to its response.  An await of fetchWithTimeout is
\* followed by an await of the body (pinterestRes.json(), or
\* pinterestRes.text() on a non-success status); fetchWithTimeout has
\* cleared its timer when it returns, so the body is read without one.
\* ---------------------------------------------------------------------

\* fetchWithTimeout returns a response (clearTimeout(timer); return res)
\* and the handler goes on to await its body
ResponseArrives(r) ==
  LET q == req[r]
  IN /\ q.upstream = "live" /\ q.pc \in {"bAwait", "pAwait"}
     /\ q.call.kind \in {"boards", "pins"}
     /\ Set(r, [q EXCEPT !.call.kind = "body"])
     /\ UNCHANGED beside

\* the settlements of the awaits of request r
Settles(r) ==
  \/ ResponseArrives(r)
  \/ BoardsSettleOk(r) \/ BoardsSettleNotOk(r) \/ BoardsSettleReject(r)
  \/ PagedSettleOk(r) \/ PagedSettleNotOk(r) \/ PagedSettleReject(r)

\* the outbound call awaited settles, or its timer fires and rejects it
CallSettles(r) == req[r].call.kind \in {"boards", "pins"} /\ Settles(r)

\* the body awaited is delivered, or reading it fails
BodySettles(r) == req[r].call.kind = "body" /\ Settles(r)

\* the synchronous stretches of the handler between two awaits
HandlerRuns(r) == BoardsLoop(r) \/ ForLoop(r) \/ PagedLoop(r)

InitLive ==
  /\ req = [r \in ReqIds |-> IF r = 1 THEN [InitReq("new") EXCEPT !.upstream = "live"]
                               ELSE InitReq("none")]
  /\ dynamicAccessToken = Null
  /\ envToken \in {Null, "tokEnv"}
  /\ calls = [c \in FetchIds |-> NoFetch]
  /\ cache = <<>>
  /\ useMock = FALSE
  /\ pure = NoPure

NextLive == \E r \in ReqIds :
  \/ MePinsStart(r)
  \/ BoardsLoop(r)
  \/ ResponseArrives(r)
  \/ BoardsSettleOk(r)
  \/ BoardsSettleNotOk(r)
  \/ BoardsSettleReject(r)
  \/ ForLoop(r)
  \/ PagedLoop(r)
  \/ PagedSettleOk(r)
  \/ PagedSettleNotOk(r)
  \/ PagedSettleReject(r)

\* the event loop resumes a handler that can run, and every outbound call
\* settles or has its timer fire
SpecLive ==
  /\ InitLive /\ [][NextLive]_vars
  /\ \A r \in ReqIds : WF_vars(HandlerRuns(r)) /\ WF_vars(CallSettles(r))

\* ---------------------------------------------------------------------
\* GET /auth/callback next to a GET /api/me/pins in flight: the callback
\* replaces the process-wide token at any await of the aggregation.
\* ---------------------------------------------------------------------

\* callbacks the process serves in all
MaxCallbacks == 2

\* data.access_token of the token endpoint's body (Null: no such field)
GrantedTokens == {Null, "tokA", "tokB"}

\* app.get('/auth/callback'): up to await fetch(".../v5/oauth/token")
CallbackStart(r) ==
  LET q == req[r]
  IN /\ q.route = "callback" /\ q.pc \in {"idle", "done"}
     /\ q.hNo < MaxCallbacks
     /\ Set(r, [InitReq("callback") EXCEPT !.pc = "tAwait", !.hNo = q.hNo + 1,
                                           !.call = [NoCall EXCEPT !.kind = "token"]])
     /\ UNCHANGED beside

\* the token endpoint answers ok and the body parses:
\* dynamicAccessToken = data.access_token; res.redirect(...)
CallbackSettleOk(r) ==
  LET q == req[r]
  IN /\ q.route = "callback" /\ q.pc = "tAwait"
     /\ \E token \in GrantedTokens : dynamicAccessToken' = token
     /\ Set(r, Respond(q, 302, <<>>))
     /\ UNCHANGED <<envToken, calls, cache, useMock, pure>>

\* ... with a non-success status: res.status(400).send(text)
CallbackSettleNotOk(r) ==
  LET q == req[r]
  IN /\ q.route = "callback" /\ q.pc = "tAwait"
     /\ Set(r, Respond(q, 400, <<>>))
     /\ UNCHANGED beside

\* fetch or tokenRes.text() rejects, or the body is no JSON: the catch
CallbackSettleReject(r) ==
  LET q == req[r]
  IN /\ q.route = "callback" /\ q.pc = "tAwait"
     /\ Set(r, Respond(q, 500, <<>>))
     /\ UNCHANGED beside

InitToken ==
  /\ req = [r \in ReqIds |-> IF r = 1 THEN [InitReq("new") EXCEPT !.upstream = "relogin"]
                               ELSE InitReq("callback")]
  /\ dynamicAccessToken = Null
  /\ envToken \in {Null, "tokEnv"}
  /\ calls = [c \in FetchIds |-> NoFetch]
  /\ cache = <<>>
  /\ useMock = FALSE
  /\ pure = NoPure

NextToken == \E r \in ReqIds :
  \/ MePinsStart(r)
  \/ BoardsLoop(r)
  \/ BoardsSettleOk(r)
  \/ BoardsSettleNotOk(r)
  \/ BoardsSettleReject(r)
  \/ ForLoop(r)
  \/ PagedLoop(r)
  \/ PagedSettleOk(r)
  \/ PagedSettleReject(r)
  \/ CallbackStart(r)
  \/ CallbackSettleOk(r)
  \/ CallbackSettleNotOk(r)
  \/ CallbackSettleReject(r)

SpecToken == InitToken /\ [][NextToken]_vars

\* ---------------------------------------------------------------------
\* GET /api/search of server/index.js (process-wide cache, mock mode) and
\* of the newer server (no cache).
\* ---------------------------------------------------------------------

\* pin.link, when the raw pin has one
LinkOf(pin) == IF "link" \in DOMAIN pin THEN pin.link ELSE Null

\* the first variant, in Object.values order, whose url is a string
FirstStringUrl(images) ==
  LET idx == {i \in 1..Len(images) : images[i].url # Null}
  IN IF idx = {} THEN Null
     ELSE images[CHOOSE i \in idx : \A j \in idx : i <= j].url

preferredOrder == <<"orig", "1200x", "1000x", "800x", "600x", "400x", "236x", "150x150">>

\* the legacy images object: the first key of preferredOrder holding a
\* string url, else the first variant holding one
PreferredUrl(images) ==
  LET hit == {k \in 1..Len(preferredOrder) :
                \E i \in 1..Len(images) :
                  images[i].key = preferredOrder[k] /\ images[i].url # Null}
      best == CHOOSE k \in hit : \A j \in hit : k <= j
  IN IF hit = {} THEN FirstStringUrl(images)
     ELSE LET i == CHOOSE i \in 1..Len(images) : images[i].key = preferredOrder[best]
          IN images[i].url

\* /^https?:\/\/i\.pinimg\.com\//.test(link)
IsPinimgLink(link) ==
  \/ Len(link) >= 21 /\ SubSeq(link, 1, 21) = "https://i.pinimg.com/"
  \/ Len(link) >= 20 /\ SubSeq(link, 1, 20) = "http://i.pinimg.com/"

\* pickImageUrlFromPin of server/index.js
pickImageUrlFromPin_server(pin) ==
  IF IsNullItem(pin) THEN Null
  ELSE IF FirstStringUrl(pin.media_images) # Null THEN FirstStringUrl(pin.media_images)
  ELSE IF PreferredUrl(pin.images) # Null THEN PreferredUrl(pin.images)
  ELSE IF pin.image_url # Null THEN pin.image_url
  ELSE IF pin.thumbnail_url # Null THEN pin.thumbnail_url
  ELSE IF LinkOf(pin) # Null /\ IsPinimgLink(LinkOf(pin)) THEN LinkOf(pin)
  ELSE Null

\* normalizePinsFromPinterest of server/index.js
normalizePinsFromPinterest_server(json) ==
  LET items == IF json.isArray THEN json.items ELSE <<>>
      one(p) == LET image == pickImageUrlFromPin_server(p)
                IN [id    |-> IF IdTruthy(p) THEN IdString(p)
                              ELSE IF ~Falsy(image) THEN image ELSE RandomId,
                    image |-> image]
  IN FilterImage([i \in 1..Len(items) |-> one(items[i])])

\* search requests the process serves in all; a slot of ReqIds takes the
\* next request when it has answered the last
MaxSearches == 3

Arrived == req[1].hNo + req[2].hNo

DefaultSearchLimit == 60

MaxSearchLimit == 120

MaxSearchPageSize == 50

\* req.query.q and req.query.limit (Null: the parameter is absent)
SearchQueries == {Null, "   ", " cats ", "cats", "dogs"}

SearchLimits == {Null, "abc", "2"}

\* a raw pin whose only image is its link
PinLinked ==
  RawPin("l", NoImages, NoImages, Null, Null) @@ [link |-> "https://i.pinimg.com/l.jpg"]

\* bodies the search upstream answers with
SearchJsons ==
  { [isArray |-> TRUE, items |-> pg, bookmark |-> Null, next_bookmark |-> Null] :
      pg \in { <<PinA, PinB, PinD>>, <<PinB, PinLinked>> } }

\* the items of public/mock/sample.json
MockSample == <<[id |-> "m1", image |-> "um1"], [id |-> "m2", image |-> "um2"],
                [id |-> "m3", image |-> "um3"]>>

\* (variant: a key that leaves the limit out)
CacheKeyNoLimit(q, limit, mock) == q \o "::" \o (IF mock THEN "mock" ELSE "live")

\* `${q}::${limit}::${useMock ? 'mock' : 'live'}`
CacheKey(q, limit, mock) ==
  q \o "::" \o ToString(limit) \o "::" \o (IF mock THEN "mock" ELSE "live")

\* (variant: an entry that exists is left as it is)
CacheSetIfAbsent(q, items) ==
  IF q.key \in DOMAIN cache THEN cache
  ELSE [k \in DOMAIN cache \cup {q.key} |->
          IF k = q.key
            THEN [items |-> items, hQuery |-> q.query, hLimit |-> q.limit,
                  hMock |-> useMock, hFirst |-> items]
          ELSE cache[k]]

\* cache.set(cacheKey, items); hQuery, hLimit, hMock and hFirst are history:
\* who stored the entry and the sequence first stored under the key
CacheSet(q, items) ==
  [k \in DOMAIN cache \cup {q.key} |->
     IF k = q.key
       THEN [items |-> items, hQuery |-> q.query, hLimit |-> q.limit, hMock |-> useMock,
             hFirst |-> IF k \in DOMAIN cache THEN cache[k].hFirst ELSE items]
     ELSE cache[k]]

\* (variant: no query is taken for missing)
MissingQueryNever(query) == FALSE

\* if (!q)
MissingQuery(query) == query = ""

\* res.status(code).json({ ok: false, error })
Fail(q, code, error) == [Respond(q, code, <<>>) EXCEPT !.error = error]

\* res.json({ ok: true, source, items })
Succeed(q, source, items) == [Respond(q, 200, items) EXCEPT !.source = source]

\* const limit = Number.isFinite(rawLimit) ? Math.min(Math.max(rawLimit, 1), 120) : 60
SearchLimit(lim) ==
  LET rawLimit == IF Falsy(lim) THEN DefaultSearchLimit ELSE ToNumber(lim)
  IN IF IsNaN(rawLimit) THEN DefaultSearchLimit
     ELSE MathMin(MathMax(rawLimit, 1), MaxSearchLimit)

\* a request arrives on a free slot: the handler of server/index.js up to
\* its first await or its response
SearchStart(r) ==
  /\ req[r].route = "search" /\ req[r].pc \in {"idle", "done"}
  /\ Arrived < MaxSearches
  /\ \E q \in SearchQueries, lim \in SearchLimits :
       LET limit == SearchLimit(lim)
           query == Trim(IF Falsy(q) THEN "" ELSE q)
           key == CacheKey(query, limit, useMock)
           q0 == [InitReq("search") EXCEPT !.hNo = req[r].hNo + 1,
                                           !.query = query, !.limit = limit]
           q1 == [q0 EXCEPT !.key = key,
                            !.hKnown = \E k \in DOMAIN cache :
                                         /\ cache[k].hQuery = query
                                         /\ cache[k].hLimit = limit
                                         /\ ~cache[k].hMock]
       IN IF MissingQuery(query) THEN Set(r, Fail(q0, 400, "q is required"))
          ELSE IF ~useMock /\ key \in DOMAIN cache
            THEN Set(r, [Succeed(q1, "cache", cache[key].items)
                           EXCEPT !.hEntry = cache[key]])
          ELSE IF useMock THEN Set(r, [q1 EXCEPT !.pc = "mAwait"])
          ELSE IF Falsy(envToken)
            THEN Set(r, Fail(q1, 500, "access token is not configured"))
          ELSE Set(r, [q1 EXCEPT !.pc = "sAwait", !.accessToken = envToken,
                                 !.hCalled = TRUE,
                                 !.call = [kind |-> "search",
                                           page_size |-> MathMin(limit, MaxSearchPageSize),
                                           bookmark |-> Null, token |-> envToken,
                                           target |-> query]])
  /\ UNCHANGED <<dynamicAccessToken, envToken, calls, cache, useMock, pure>>

\* await import('../public/mock/sample.json') gives the sample
SearchMockLoaded(r) ==
  LET q == req[r]
      items == Slice0(MockSample, q.limit)
  IN /\ q.route = "search" /\ q.pc = "mAwait"
     /\ cache' = CacheSet(q, items)
     /\ Set(r, Succeed(q, "mock", items))
     /\ UNCHANGED <<dynamicAccessToken, envToken, calls, useMock, pure>>

\* ... or fails
SearchMockFailed(r) ==
  LET q == req[r]
  IN /\ q.route = "search" /\ q.pc = "mAwait"
     /\ Set(r, Fail(q, 500, "Failed to load mock data"))
     /\ UNCHANGED beside

\* the upstream answers ok with a body that parses
SearchSettleOk(r) ==
  LET q == req[r]
  IN /\ q.route = "search" /\ q.pc = "sAwait"
     /\ \E json \in SearchJsons :
          LET items == Slice0(normalizePinsFromPinterest_server(json), q.limit)
          IN /\ cache' = CacheSet(q, items)
             /\ Set(r, Succeed(q, "pinterest-v5", items))
     /\ UNCHANGED <<dynamicAccessToken, envToken, calls, useMock, pure>>

\* ... with a non-success status: res.status(pinterestRes.status || 502)
SearchSettleNotOk(r) ==
  LET q == req[r]
  IN /\ q.route = "search" /\ q.pc = "sAwait"
     /\ \E answer \in NotOkAnswers :
          Set(r, Fail(q, answer.status, "Pinterest API error"))
     /\ UNCHANGED beside

\* ... ok with a body that is no JSON
SearchSettleBadJson(r) ==
  LET q == req[r]
  IN /\ q.route = "search" /\ q.pc = "sAwait"
     /\ Set(r, Fail(q, 502, "Failed to parse Pinterest response"))
     /\ UNCHANGED beside

\* fetchWithTimeout or res.text() rejects (timeout, network): the catch
SearchSettleReject(r) ==
  LET q == req[r]
  IN /\ q.route = "search" /\ q.pc = "sAwait"
     /\ Set(r, Fail(q, 502, "Pinterest API request failed"))
     /\ UNCHANGED beside

\* the handler of the newer server up to its await or its response
SearchV5Start(r) ==
  /\ req[r].route = "searchV5" /\ req[r].pc \in {"idle", "done"}
  /\ Arrived < MaxSearches
  /\ \E q \in SearchQueries, lim \in SearchLimits :
       LET rawLimit == IF Falsy(lim) THEN DefaultSearchLimit ELSE ToNumber(lim)
           limit == MathMin(MathMax(rawLimit, 1), MaxSearchLimit)
           query == Trim(IF Falsy(q) THEN "" ELSE q)
           q0 == [InitReq("searchV5") EXCEPT !.hNo = req[r].hNo + 1,
                                             !.query = query, !.limit = limit]
       IN IF MissingQuery(query) THEN Set(r, Fail(q0, 400, "q is required"))
          ELSE IF Falsy(CurrentToken)
            THEN Set(r, Fail(q0, 500, "access token is not configured"))
          ELSE Set(r, [q0 EXCEPT !.pc = "sAwait", !.accessToken = CurrentToken,
                                 !.hCalled = TRUE,
                                 !.call = [kind |-> "search",
                                           page_size |-> MathMin(limit, MaxSearchPageSize),
                                           bookmark |-> Null, token |-> CurrentToken,
                                           target |-> query]])
  /\ UNCHANGED beside

\* the upstream answers ok and the body parses
SearchV5SettleOk(r) ==
  LET q == req[r]
  IN /\ q.route = "searchV5" /\ q.pc = "sAwait"
     /\ \E json \in SearchJsons :
          Set(r, Succeed(q, "pinterest-v5",
                         Slice0(normalizePinsFromPinterest(json), q.limit)))
     /\ UNCHANGED beside

\* ... with a non-success status, or the call rejects, or the body is no
\* JSON: 502
SearchV5SettleFail(r) ==
  LET q == req[r]
  IN /\ q.route = "searchV5" /\ q.pc = "sAwait"
     /\ \E error \in {"Pinterest API error", "Pinterest API request failed"} :
          Set(r, Fail(q, 502, error))
     /\ UNCHANGED beside

\* the process runs server/index.js (route "search") or the newer server
\* (route "searchV5"), with its environment
InitSearch ==
  /\ \E server \in {"search", "searchV5"} : req = [r \in ReqIds |-> InitReq(server)]
  /\ dynamicAccessToken = Null
  /\ envToken \in {Null, "tokEnv"}
  /\ calls = [c \in FetchIds |-> NoFetch]
  /\ cache = <<>>
  /\ useMock \in BOOLEAN
  /\ pure = NoPure

NextSearch == \E r \in ReqIds :
  \/ SearchStart(r)
  \/ SearchMockLoaded(r)
  \/ SearchMockFailed(r)
  \/ SearchSettleOk(r)
  \/ SearchSettleNotOk(r)
  \/ SearchSettleBadJson(r)
  \/ SearchSettleReject(r)
  \/ SearchV5Start(r)
  \/ SearchV5SettleOk(r)
  \/ SearchV5SettleFail(r)

SpecSearch == InitSearch /\ [][NextSearch]_vars

\* ---------------------------------------------------------------------
\* The image-variant selector and the two normalisers applied to inputs
\* drawn from bounded sets.
\* ---------------------------------------------------------------------

\* entries of a variant map, and pins of an items array, at most
MaxVariants == 3

MaxItems == 3

\* the entries of a variant map: three keys, with or without a url, and as
\* (width, height): absent, one of them 0, numeric
VariantEntries ==
  LET keys == {"orig", "100x", "600x900"}
      dims == { <<NoDim, NoDim>>, <<0, 10>>, <<10, 20>>, <<20, 10>> }
  IN { Variant(key, url, d[1], d[2]) : key \in keys, url \in {Null, "u"}, d \in dims }

\* variant maps: no key twice; the url of a variant names its position
VariantMaps ==
  LET all == UNION { [1..k -> VariantEntries] : k \in 0..MaxVariants }
      positioned(m) == [i \in DOMAIN m |->
                          IF m[i].url = Null THEN m[i]
                          ELSE [m[i] EXCEPT !.url = "u" \o ToString(i)]]
  IN { positioned(m) :
         m \in { mm \in all : \A i, j \in DOMAIN mm : i # j => mm[i].key # mm[j].key } }

\* null as an element of json.items
NullItem == [isNull |-> TRUE]

\* a media variant whose url is the empty string, and an image_url
PinBlankUrl == RawPin("e", <<Variant("orig", "", NoDim, NoDim)>>, NoImages, "ue", Null)

\* ids that are the empty string, a Number, the Number 0; and a pin with
\* neither id nor image
PinEmptyId == RawPin("", NoImages, NoImages, "uf", Null)

PinNumberId == RawPin(Null, NoImages, NoImages, "ug", Null) @@ [idNumber |-> 7]

PinZeroId == RawPin(Null, NoImages, NoImages, Null, "uh") @@ [idNumber |-> 0]

PinBare == RawPin(Null, NoImages, NoImages, Null, Null)

RawItems ==
  <<PinA, PinB, PinC, PinD, PinNoImage, PinLinked, PinBlankUrl, NullItem,
    PinNoId, PinEmptyId, PinNumberId, PinZeroId, PinBare>>

\* the bodies handed to the normalisers: items is an array of at most
\* MaxItems elements of RawItems, or no array
ItemsJsons ==
  { [isArray |-> TRUE, items |-> [i \in DOMAIN c |-> RawItems[c[i]]],
     bookmark |-> Null, next_bookmark |-> Null] :
      c \in UNION { [1..k -> DOMAIN RawItems] : k \in 0..MaxItems } }
  \cup { [isArray |-> FALSE, items |-> <<>>, bookmark |-> Null, next_bookmark |-> Null] }

InitPure ==
  /\ req = [r \in ReqIds |-> InitReq("none")]
  /\ dynamicAccessToken = Null
  /\ envToken = "tokEnv"
  /\ calls = [c \in FetchIds |-> NoFetch]
  /\ cache = <<>>
  /\ useMock = FALSE
  /\ \/ \E images \in VariantMaps :
          pure = [fn |-> "pickBestImageVariant", arg |-> images, done |-> FALSE]
     \/ \E json \in ItemsJsons, fn \in {"normalize", "normalize_server"} :
          pure = [fn |-> fn, arg |-> json, done |-> FALSE]

\* pickBestImageVariant(images)
ApplyPick ==
  /\ pure.fn = "pickBestImageVariant" /\ ~pure.done
  /\ pure' = [fn |-> pure.fn, arg |-> pure.arg, done |-> TRUE,
               result |-> pickBestImageVariant(pure.arg)]
  /\ UNCHANGED <<req, dynamicAccessToken, envToken, calls, cache, useMock>>

\* normalizePinsFromPinterest(json) of the newer server: it returns the
\* records or throws
ApplyNormalize ==
  /\ pure.fn = "normalize" /\ ~pure.done
  /\ pure' = [fn |-> pure.fn, arg |-> pure.arg, done |-> TRUE,
               threw |-> NormalizeThrows(pure.arg),
               result |-> IF NormalizeThrows(pure.arg) THEN <<>>
                          ELSE normalizePinsFromPinterest(pure.arg)]
  /\ UNCHANGED <<req, dynamicAccessToken, envToken, calls, cache, useMock>>

\* normalizePinsFromPinterest(json) of server/index.js
ApplyNormalizeServer ==
  /\ pure.fn = "normalize_server" /\ ~pure.done
  /\ pure' = [fn |-> pure.fn, arg |-> pure.arg, done |-> TRUE,
               threw |-> NormalizeThrows(pure.arg),
               result |-> IF NormalizeThrows(pure.arg) THEN <<>>
                          ELSE normalizePinsFromPinterest_server(pure.arg)]
  /\ UNCHANGED <<req, dynamicAccessToken, envToken, calls, cache, useMock>>

NextPure == ApplyPick \/ ApplyNormalize \/ ApplyNormalizeServer

SpecPure == InitPure /\ [][NextPure]_vars

\* ---------------------------------------------------------------------
\* fetchWithTimeout(url, options, timeoutMs): the calls of FetchIds, each
\* with its own controller and timer, on the one event loop.
\* ---------------------------------------------------------------------

\* statuses an upstream answers with; fetch fulfils on every one of them
UpstreamStatuses == {200, 404, 500}

\* a promise reaction is queued: an awaited fetch has settled and its
\* function has not resumed. The event loop drains these before it runs
\* a timer callback or takes another event.
MicrotaskQueued ==
  \E c \in FetchIds :
    calls[c].pc = "await" /\ calls[c].fetch \in {"fulfilled", "rejected"}

SetCall(c, f) == calls' = [calls EXCEPT ![c] = f] /\ UNCHANGED <<req, dynamicAccessToken, envToken, cache, useMock, pure>>

\* (variant: the timer callback aborts nothing)
OnTimeoutNoAbort(f) == [f EXCEPT !.timer = "fired"]

\* () => controller.abort(): the signal is aborted, a fetch still pending
\* on that signal rejects with an AbortError
OnTimeout(f) ==
  [f EXCEPT !.timer = "fired", !.aborted = TRUE,
            !.fetch = IF f.fetch = "pending" THEN "rejected" ELSE @,
            !.err = IF f.fetch = "pending" THEN "AbortError" ELSE @]

\* (variant: the timer is left as it is)
KeepTimer(t) == t

\* clearTimeout(timer): a pending timer is cancelled, any other is untouched
clearTimeout(t) == IF t = "pending" THEN "cleared" ELSE t

\* const controller = new AbortController(); const timer = setTimeout(...);
\* fetch(url, {...options, signal}) is started and awaited
FwtCall(c) ==
  /\ calls[c].pc = "idle"
  /\ ~MicrotaskQueued
  /\ SetCall(c, [calls[c] EXCEPT !.pc = "await", !.timer = "pending", !.fetch = "pending"])

\* timeoutMs have passed and the timer was not cleared
FwtTimer(c) ==
  /\ calls[c].timer = "pending"
  /\ ~MicrotaskQueued
  /\ SetCall(c, OnTimeout(calls[c]))

\* the upstream answers: fetch fulfils with a response of any status
FwtFulfil(c) ==
  /\ calls[c].fetch = "pending"
  /\ ~MicrotaskQueued
  /\ \E status \in UpstreamStatuses :
       SetCall(c, [calls[c] EXCEPT !.fetch = "fulfilled", !.res = status])

\* the network fails: fetch rejects
FwtReject(c) ==
  /\ calls[c].fetch = "pending"
  /\ ~MicrotaskQueued
  /\ SetCall(c, [calls[c] EXCEPT !.fetch = "rejected", !.err = "FetchError"])

\* try: const res = await fetch(...); clearTimeout(timer); return res
FwtReturn(c) ==
  /\ calls[c].pc = "await" /\ calls[c].fetch = "fulfilled"
  /\ SetCall(c, [calls[c] EXCEPT !.timer = clearTimeout(@), !.pc = "returned",
                                 !.hResult = calls[c].res])

\* catch (err): clearTimeout(timer); throw err
FwtThrow(c) ==
  /\ calls[c].pc = "await" /\ calls[c].fetch = "rejected"
  /\ SetCall(c, [calls[c] EXCEPT !.timer = clearTimeout(@), !.pc = "threw",
                                 !.hResult = calls[c].err])

InitFetch ==
  /\ req = [r \in ReqIds |-> InitReq("none")]
  /\ dynamicAccessToken = Null
  /\ envToken = "tokEnv"
  /\ calls = [c \in FetchIds |-> NoFetch]
  /\ cache = <<>>
  /\ useMock = FALSE
  /\ pure = NoPure

NextFetch == \E c \in FetchIds :
  \/ FwtCall(c)
  \/ FwtTimer(c)
  \/ FwtFulfil(c)
  \/ FwtReject(c)
  \/ FwtReturn(c)
  \/ FwtThrow(c)

SpecFetch == InitFetch /\ [][NextFetch]_vars

(***************************************************************************)
(* Properties.                                                             *)
(***************************************************************************)
NoDuplicateIds(recs) ==
  \A i, j \in 1..Len(recs) : recs[i].id = recs[j].id => i = j

IsPrefix(s, t) == Len(s) <= Len(t) /\ s = SubSeq(t, 1, Len(s))

\* the position of the record with this id in recs, 0 if there is none
PosOf(id, recs) ==
  IF id \in IdsOf(recs) THEN CHOOSE i \in 1..Len(recs) : recs[i].id = id ELSE 0

\* s keeps the relative order the ids have in t
OrderedAs(s, t) ==
  /\ IdsOf(s) \subseteq IdsOf(t)
  /\ \A i, j \in 1..Len(s) : i < j => PosOf(s[i].id, t) < PosOf(s[j].id, t)

\* clamp(targetCount, 1, 500), a count that is no number counting as the
\* lower end
ClampCount(n) ==
  IF IsNaN(n) THEN 1 ELSE IF n < 1 THEN 1 ELSE IF n > 500 THEN 500 ELSE n

MePinsDone(q) == q.route = "mePins" /\ q.pc = "done"

\* C1: in GET /api/me/pins, when the pin fetch of some boards fails the
\* request still ends with a success response, every board is still read as
\* long as the running total is below the limit, and every pin a successful
\* board's fetch returned is in the output (unless the output is full).
C1_FailureAbsorbed ==
  \A r \in ReqIds :
    LET q == req[r]
    IN (MePinsDone(q) /\ q.hBoardFailed) =>
         /\ q.status = 200
         /\ (q.hTried = Len(q.boards) \/ Ge(Len(q.out), q.limit))
         /\ (IdsOf(q.hReturnedAll) \subseteq IdsOf(q.items)
               \/ Ge(Len(q.items), q.limit))

\* C1 for a limit parameter that is a number: the three parts hold
C1_NumericLimit ==
  \A r \in ReqIds :
    LET q == req[r]
    IN (MePinsDone(q) /\ q.hBoardFailed /\ ~IsNaN(q.limit)) =>
         /\ q.status = 200
         /\ (q.hTried = Len(q.boards) \/ Ge(Len(q.out), q.limit))
         /\ (IdsOf(q.hReturnedAll) \subseteq IdsOf(q.items)
               \/ Ge(Len(q.items), q.limit))

C1_NumericLimit_Witness ==
  \E r \in ReqIds :
    LET q == req[r]
    IN /\ MePinsDone(q) /\ q.hBoardFailed /\ ~IsNaN(q.limit)
       /\ q.hTried = 3 /\ Len(q.items) >= 2 /\ Len(q.items) < q.limit

C3_OrderOfFirstOccurrence ==
  \A r \in ReqIds :
    LET q == req[r]
    IN MePinsDone(q) =>
         /\ (IsNaN(q.limit) \/ Len(q.items) <= q.limit)
         /\ OrderedAs(q.items, q.hServedAll)

\* C3 as amended: at most targetLimit records, ordered by the board a record
\* was taken from and then by its position in what that board's
\* fetchPinsPaged call returned: the output is the deduplicated concatenation
\* of the calls' results, cut at the limit.
C3_OrderOfReturned ==
  \A r \in ReqIds :
    LET q == req[r]
    IN (MePinsDone(q) /\ q.status = 200) =>
         /\ (IF IsNaN(q.limit) THEN Len(q.items) = 0 ELSE Len(q.items) <= q.limit)
         /\ q.limit \in 1..MaxSafeLimit \cup {NaN}
         /\ IsPrefix(q.items, q.hReturnedAll)

\* the limit cut the output of an aggregation over several boards
C3_Witness ==
  \E r \in ReqIds :
    LET q == req[r]
    IN /\ MePinsDone(q) /\ q.status = 200 /\ q.hTried >= 2
       /\ Len(q.items) = q.limit /\ Len(q.items) >= 2
       /\ Len(q.hServedAll) > Len(q.items)

\* C4: one call of fetchPinsPaged never issues more than 50 page requests.
C4_AtMost50PageRequests ==
  \A r \in ReqIds : req[r].hPageCalls <= 50

\* the upstream gave a bookmark on every one of 50 pages and the target was
\* never reached
C4_Witness ==
  \E r \in ReqIds :
    LET q == req[r]
    IN /\ q.route = "paged" /\ q.pc = "done" /\ q.hOutcome = "returned"
       /\ q.hPageCalls = 50 /\ ~Falsy(NextBookmark([bookmark |-> q.hLastFields[1],
                                                    next_bookmark |-> q.hLastFields[2]]))
       /\ Len(q.hReturned) < ClampCount(q.hArg)

\* C5: for every requested count fetchPinsPaged returns at most
\* clamp(count, 1, 500) records and asks every page with a page size of
\* min(clamp(count, 1, 500), 50).
C5_ClampedCountAndPageSize ==
  \A r \in ReqIds :
    LET q == req[r]
        target == ClampCount(q.hArg)
    IN /\ q.hOutcome = "returned" => Len(q.hReturned) <= target
       /\ q.call.kind = "pins" =>
            q.call.page_size = (IF target < 50 THEN target ELSE 50)

\* a count of 0 returned one record although the upstream served more
C5_Witness ==
  \E r \in ReqIds :
    LET q == req[r]
    IN /\ q.route = "paged" /\ q.hOutcome = "returned" /\ q.hArg = 0
       /\ Len(q.hReturned) = 1 /\ Len(q.hServed) >= 2

\* C6: the result of one fetchPinsPaged call holds no id twice; it keeps the
\* first occurrence of each id, in the order of the first occurrences in the
\* pages served.
C6_FirstOccurrencesKept ==
  \A r \in ReqIds :
    LET q == req[r]
    IN /\ NoDuplicateIds(q.fOut) /\ IsPrefix(q.fOut, q.hServed)
       /\ q.hOutcome = "returned" =>
            /\ NoDuplicateIds(q.hReturned)
            /\ IsPrefix(q.hReturned, q.hServed)
            /\ Len(q.hReturned) = Len(q.hServed) \/ Len(q.hReturned) = ClampCount(q.hArg)

\* an id came twice and the call returned several records over several pages
C6_Witness ==
  \E r \in ReqIds :
    LET q == req[r]
    IN /\ q.route = "paged" /\ q.hOutcome = "returned" /\ q.hDup
       /\ Len(q.hReturned) >= 2 /\ q.hPageCalls >= 3

\* C7: the first page request carries no bookmark; a later one is issued only
\* after a page that returned a non-empty bookmark, with the accumulated count
\* below the target, and carries that bookmark.  With target 120 and pages of
\* 50, 50 (with bookmark) and 30 (without) three requests are issued and at
\* most 120 records returned.
C7_BookmarkChain ==
  \A r \in ReqIds :
    LET q == req[r]
        last == IF ~Falsy(q.hLastFields[1]) THEN q.hLastFields[1] ELSE q.hLastFields[2]
    IN /\ (q.call.kind = "pins" /\ q.hPageCalls = 1) => q.call.bookmark = Null
       /\ (q.call.kind = "pins" /\ q.hPageCalls > 1) =>
            /\ ~Falsy(last) /\ q.call.bookmark = last
            /\ q.hOutAtIssue < ClampCount(q.hArg)
       /\ (q.upstream = "pages50" /\ q.pc = "done") =>
            /\ q.hOutcome = "returned" /\ q.hPageCalls = 3
            /\ Len(q.hReturned) <= 120 /\ NoDuplicateIds(q.hReturned)

\* the 50/50/30 run has ended with 120 records
C7_Witness ==
  \E r \in ReqIds :
    LET q == req[r]
    IN /\ q.upstream = "pages50" /\ q.pc = "done"
       /\ q.hPageCalls = 3 /\ Len(q.hReturned) = 120

\* C8: a non-success status on any page makes the fetchPinsPaged call fail
\* with an error carrying the status and the body text; the call returns no
\* record and issues no further page request.
C8_NotOkAborts ==
  \A r \in ReqIds :
    LET q == req[r]
    IN q.hNotOk.status # 0 =>
         /\ q.hOutcome = "threw"
         /\ q.hErr.status = q.hNotOk.status /\ q.hErr.details = q.hNotOk.details
         /\ q.hReturned = <<>>
         /\ q.hPageCalls = q.hCallsAtNotOk
         /\ (q.route = "paged" => q.pc = "done" /\ q.items = <<>>)

\* the failing page came after pages that had given records
C8_Witness ==
  \E r \in ReqIds :
    LET q == req[r]
    IN /\ q.route = "paged" /\ q.hNotOk.status = 500
       /\ q.hCallsAtNotOk >= 3 /\ Len(q.hServed) >= 2

\* C9: when a page of the board enumeration fails the /api/me/pins request
\* ends with a 502 response and issues no board-pins request.
C9_BoardsFailureIs502 ==
  \A r \in ReqIds :
    LET q == req[r]
    IN q.hBoardsFailed =>
         /\ q.pc = "done" /\ q.status = 502 /\ q.items = <<>>
         /\ ~q.hPinCall /\ q.hTried = 0

\* the failing page came after pages that had given boards
C9_Witness ==
  \E r \in ReqIds :
    LET q == req[r]
    IN q.hBoardsFailed /\ Len(q.boards) >= 2 /\ q.status = 502

\* C10: the image proxy fetches only an absolute http(s) URL on an
\* allow-listed host; a missing or unparseable url or another scheme is
\* answered 400 and another host 403, both without an outbound call.
C10_ProxyValidation ==
  \A r \in ReqIds :
    LET q == req[r]
    IN q.route = "proxy" =>
         /\ (q.hImageCall \/ q.call.kind = "image") => q.hUrlClass = "fetch"
         /\ q.hUrlClass = "fetch" => q.hImageCall
         /\ q.hUrlClass = "400" => (q.pc = "done" /\ q.status = 400)
         /\ q.hUrlClass = "403" => (q.pc = "done" /\ q.status = 403)
         /\ q.raw = "ftp://i.pinimg.com/x.png" => q.status = 400
         /\ q.raw = "https://evil.example.com/x.png" => q.status = 403

\* the ftp URL on an allow-listed host was answered 400
C10_Witness ==
  \E r \in ReqIds :
    LET q == req[r]
    IN /\ q.route = "proxy" /\ q.pc = "done"
       /\ q.raw = "ftp://i.pinimg.com/x.png" /\ q.status = 400 /\ ~q.hImageCall

\* C11: when the image upstream answers with a success status the proxy
\* answers 413 and streams nothing exactly when the declared content-length
\* is above 25 MiB; otherwise (no header, not a number, not above the
\* ceiling) it streams the body with status 200.
C11_SizeGuard ==
  \A r \in ReqIds :
    LET q == req[r]
        over == q.hContentLength \in {"26214401", "31457280"}
    IN (q.route = "proxy" /\ q.hUpstreamOk) =>
         /\ q.pc = "done"
         /\ over => (q.status = 413 /\ ~q.streamed)
         /\ ~over => (q.status = 200 /\ q.streamed)

\* a declared length of exactly 25 MiB was streamed
C11_Witness ==
  \E r \in ReqIds :
    LET q == req[r]
    IN /\ q.route = "proxy" /\ q.hUpstreamOk /\ q.hContentLength = "26214400"
       /\ q.status = 200 /\ q.streamed

\* C12: a timer that fires while the outbound call has not settled cancels
\* the request in flight and the call fails: no call returns a response
\* after its timer fired; a call whose request settled first gets that
\* outcome and its timer never fires.
C12_TimerCancelsOrNever ==
  \A c \in FetchIds :
    LET f == calls[c]
    IN /\ f.timer = "fired" =>
            /\ f.aborted /\ f.fetch = "rejected" /\ f.err = "AbortError"
            /\ f.pc \in {"await", "threw"}
            /\ f.pc = "threw" => f.hResult = "AbortError"
       /\ f.pc = "returned" => (f.timer = "cleared" /\ f.hResult = f.res /\ ~f.aborted)
       /\ (f.fetch = "fulfilled" \/ f.err = "FetchError") =>
            /\ f.timer \in {"pending", "cleared"}
            /\ f.pc = "threw" => f.hResult = "FetchError"

\* one call failed by its timer, one that returned an error status, one
\* that failed on the network
C12_Witness ==
  \E c, d, e \in FetchIds :
    /\ calls[c].pc = "threw" /\ calls[c].timer = "fired" /\ calls[c].hResult = "AbortError"
    /\ calls[d].pc = "returned" /\ calls[d].hResult = 404
    /\ calls[e].pc = "threw" /\ calls[e].hResult = "FetchError"

\* C13: once a fetchWithTimeout call has returned or thrown (success,
\* error status, network failure or timeout) its timer is not pending.
C13_NoTimerLeft ==
  \A c \in FetchIds :
    calls[c].pc \in {"returned", "threw"} => calls[c].timer \in {"cleared", "fired"}

\* the four ways out, with another call still waiting on its timer
C13_Witness ==
  /\ \E c \in FetchIds : calls[c].pc = "await" /\ calls[c].timer = "pending"
  /\ \E c, d \in FetchIds :
       /\ calls[c].pc = "returned" /\ calls[c].hResult = 200 /\ calls[c].timer = "cleared"
       /\ calls[d].pc = "threw" /\ calls[d].timer = "fired"

\* C14: two /api/me/pins aggregations served at once share no accumulator
\* and no set of seen ids: each asks the upstream for its own boards with
\* its own token, and what it has collected, and in the end returns, is
\* what the upstream's answers to it alone give: the first occurrences, in
\* order, of the pins its own board reads returned, cut at its limit.
C14_RequestsIndependent ==
  \A r \in ReqIds :
    LET q == req[r]
    IN q.route = "mePins" =>
         /\ q.pc = "pAwait" =>
              (q.call.target = q.boards[q.bi] /\ q.call.token = q.accessToken)
         /\ q.pc \in {"forLoop", "pLoop", "pAwait"} =>
              /\ q.out = Slice0(q.hReturnedAll, q.limit)
              /\ q.seen = IdsOf(q.out)
         /\ (q.pc = "done" /\ q.status = 200) =>
              q.items = Slice0(q.hReturnedAll, q.limit)

\* both done, each having read a board while the other was collecting,
\* and the pin "a" is in both outputs
C14_Witness ==
  \A r \in ReqIds :
    /\ req[r].pc = "done" /\ req[r].status = 200 /\ req[r].hOverlap
    /\ "a" \in IdsOf(req[r].items)
    /\ Len(req[r].items) = 2

\* a fetchPinsPaged call of the fan-out is open
InBoardCall(q) == q.route = "mePins" /\ q.pc \in {"pLoop", "pAwait"} /\ ~IsNaN(q.limit)

\* C17 (as stated): the count asked of fetchPinsPaged for a board is
\* remaining = limit - collected at the moment the board is reached, for
\* every limit in 1..500.
C17_QuotaIsRemaining ==
  \A r \in ReqIds :
    InBoardCall(req[r]) => req[r].hArg = req[r].limit - Len(req[r].out)

\* C17 (amended): the count asked of fetchPinsPaged for a board is the
\* smaller of 200 and remaining = limit - collected at the moment the
\* board is reached, for every limit in 1..500; it is positive.
C17_QuotaIsRemainingUpTo200 ==
  \A r \in ReqIds :
    LET q == req[r]
        remaining == q.limit - Len(q.out)
    IN InBoardCall(q) =>
         /\ q.limit \in 1..500
         /\ q.hArg = (IF remaining < 200 THEN remaining ELSE 200)
         /\ q.hArg >= 1

\* the second board of a request for 500 pins is asked for 200 while 498
\* remain
C17_Witness ==
  \E r \in ReqIds :
    LET q == req[r]
    IN /\ InBoardCall(q) /\ q.bi = 2 /\ Len(q.out) = 2
       /\ q.limit = 500 /\ q.hArg = 200

\* C18: the enumeration of boards makes at most 20 page requests (one per
\* round of its loop), each of page size 100, makes none after a page
\* without bookmark or once 500 boards are collected, and the fan-out never
\* reads more than 500 boards.
C18_BoardEnumerationBounded ==
  \A r \in ReqIds :
    LET q == req[r]
    IN q.route = "mePins" =>
         /\ q.bLoops <= 20
         /\ q.pc = "bAwait" =>
              /\ q.call.kind = "boards" /\ q.call.page_size = 100
              /\ Len(q.boards) < 500
              /\ q.bLoops > 1 => ~Falsy(q.bBookmark)
         /\ Len(q.boards) <= 500
         /\ q.hTried <= 500

\* six pages of 99 boards were collected and all 594 boards were read
C18_Witness ==
  \E r \in ReqIds :
    /\ req[r].route = "mePins" /\ req[r].pc = "done" /\ req[r].status = 200
    /\ Len(req[r].boards) = 594 /\ req[r].hTried = 594

\* the number the claim reads in a key: its first run of digits
KeyNumber(key) ==
  CASE key = "100x" -> 100 [] key = "600x900" -> 600 [] OTHER -> 999999

\* the url of the first variant with the greatest score among the variants
\* that have a url; Null when none has one
FirstOfBest(images, score(_)) ==
  LET withUrl == {i \in 1..Len(images) : ~Falsy(images[i].url)}
      best == {i \in withUrl : \A j \in withUrl : score(images[j]) <= score(images[i])}
  IN IF withUrl = {} THEN Null
     ELSE images[CHOOSE i \in best : \A j \in best : i <= j].url

\* width * height when both are numeric
ScoreAsStated(v) ==
  IF v.width # NoDim /\ v.height # NoDim THEN v.width * v.height
  ELSE KeyNumber(v.key)

\* width * height when both are numeric and not 0
ScoreNonZero(v) ==
  IF v.width \notin {NoDim, 0} /\ v.height \notin {NoDim, 0} THEN v.width * v.height
  ELSE KeyNumber(v.key)

PickDone == pure.fn = "pickBestImageVariant" /\ pure.done

HasImageField(p) ==
  /\ ~IsNullItem(p)
  /\ \/ \E i \in 1..Len(p.media_images) : ~Falsy(p.media_images[i].url)
     \/ \E i \in 1..Len(p.images) : ~Falsy(p.images[i].url)
     \/ ~Falsy(p.image_url)
     \/ ~Falsy(p.thumbnail_url)

\* the ids of the raw pins of json.items that have an image, in order
IdsWithImage(json) ==
  LET items == IF json.isArray THEN json.items ELSE <<>>
      kept == SelectSeq(Indices(items), LAMBDA i : HasImageField(items[i]))
  IN [k \in 1..Len(kept) |-> items[kept[k]].id]

NormalizeDone == pure.fn \in {"normalize", "normalize_server"} /\ pure.done

\* the records recs stand, one by one and in order, for the raw pins whose
\* ids are ids (a raw pin whose id is no non-empty string is not compared)
MatchesIds(recs, ids) ==
  /\ Len(recs) = Len(ids)
  /\ \A k \in 1..Len(ids) : ~Falsy(ids[k]) => recs[k].id = ids[k]

\* C20: normalizePinsFromPinterest returns, in input order, exactly one
\* record for each raw pin that has an image in media.images, images,
\* image_url or thumbnail_url and none for a raw pin that has none of
\* them; items that is missing or no array gives the empty sequence.
C20_OneRecordPerImagePin ==
  NormalizeDone =>
    /\ ~pure.threw
    /\ MatchesIds(pure.result, IdsWithImage(pure.arg))
    /\ ~pure.arg.isArray => pure.result = <<>>

\* C20 for the newer server and items that hold no null
C20_OneRecordPerImagePinNoNull ==
  (NormalizeDone /\ pure.fn = "normalize" /\ ~NormalizeThrows(pure.arg)) =>
    /\ ~pure.threw
    /\ MatchesIds(pure.result, IdsWithImage(pure.arg))
    /\ ~pure.arg.isArray => pure.result = <<>>

\* the newer server's normaliser threw on an array that holds null next to
\* a pin with an image
C20_Witness ==
  /\ NormalizeDone /\ pure.fn = "normalize" /\ pure.threw
  /\ Len(pure.arg.items) = 2 /\ pure.arg.items[2] = PinA

\* a search request that has been answered
SearchDone(q) == q.route \in {"search", "searchV5"} /\ q.pc = "done" /\ q.hNo > 0

\* the token the search handler of the running server reads
SearchToken(q) == IF q.route = "search" THEN envToken ELSE CurrentToken

\* C15 (as stated): an empty or whitespace-only q is answered 400, and a
\* non-empty q without a configured token is answered 500 with the
\* missing-credential message, in every mode.
C15_MissingTokenIs500 ==
  \A r \in ReqIds :
    LET q == req[r]
    IN SearchDone(q) =>
         /\ q.query = "" => (q.status = 400 /\ q.error = "q is required")
         /\ (q.query # "" /\ Falsy(SearchToken(q))) =>
              (q.status = 500 /\ q.error = "access token is not configured")

\* C15 (amended): an empty or whitespace-only q is answered 400 whatever
\* the limit, the cache, the mode and the token are; a non-empty q without
\* a configured token is answered 500 with the missing-credential message
\* unless server/index.js runs in mock mode, which never reads the token
\* and answers with the mock sample or 500 "Failed to load mock data".
C15_MissingTokenIs500Live ==
  \A r \in ReqIds :
    LET q == req[r]
    IN SearchDone(q) =>
         /\ q.query = "" =>
              (q.status = 400 /\ q.error = "q is required" /\ ~q.hCalled)
         /\ (q.query # "" /\ Falsy(SearchToken(q)) /\ ~useMock) =>
              (q.status = 500 /\ q.error = "access token is not configured" /\ ~q.hCalled)
         /\ (q.query # "" /\ q.route = "search" /\ useMock) =>
              /\ ~q.hCalled
              /\ \/ q.status = 200 /\ q.source = "mock"
                 \/ q.status = 500 /\ q.error = "Failed to load mock data"

\* without a token and in live mode: one request without q answered 400,
\* one with q answered 500
C15_Witness ==
  /\ Falsy(envToken) /\ ~useMock
  /\ \E r, o \in ReqIds :
       /\ SearchDone(req[r]) /\ req[r].query = "" /\ req[r].status = 400
       /\ SearchDone(req[o]) /\ req[o].query = "cats" /\ req[o].status = 500

\* C16 (as stated): once a live search has stored its items, every later
\* live search for the same trimmed query and clamped limit is answered
\* from the cache, without an upstream call, with exactly the sequence that
\* search stored; no other query or limit gets the entry; no entry is
\* evicted.
C16_HitReturnsFirstStored ==
  \A r \in ReqIds :
    LET q == req[r]
    IN (SearchDone(q) /\ q.source = "cache") =>
         (~q.hCalled /\ q.items = q.hEntry.hFirst
          /\ q.hEntry.hQuery = q.query /\ q.hEntry.hLimit = q.limit)

\* C16 (amended): once a live search has stored its items, every later
\* live search for the same trimmed query and clamped limit is answered
\* from the cache, without an upstream call, with the sequence stored last
\* under that query and limit (a search that missed before the first
\* store still goes upstream and replaces the sequence when it succeeds);
\* no other query or limit gets the entry; no entry is evicted.
C16_HitReturnsLastStored ==
  /\ \A k \in DOMAIN cache :
       k = CacheKey(cache[k].hQuery, cache[k].hLimit, cache[k].hMock)
  /\ \A r \in ReqIds :
       LET q == req[r]
       IN (SearchDone(q) /\ q.route = "search" /\ q.status = 200) =>
            /\ q.source = "cache" =>
                 /\ ~q.hCalled /\ ~useMock
                 /\ q.items = q.hEntry.items
                 /\ q.hEntry.hQuery = q.query /\ q.hEntry.hLimit = q.limit
                 /\ ~q.hEntry.hMock
            /\ q.source = "pinterest-v5" => (q.hCalled /\ ~q.hKnown)
            /\ q.key \in DOMAIN cache

\* a hit on an entry that two overlapping searches stored one after the
\* other, with different items
C16_Witness ==
  \E r \in ReqIds :
    LET q == req[r]
    IN /\ SearchDone(q) /\ q.source = "cache" /\ q.query = "cats"
       /\ q.items # q.hEntry.hFirst
       /\ Cardinality(DOMAIN cache) = 1

\* every url a raw pin carries: its variants, image_url, thumbnail_url, link
UrlsOf(p) ==
  {p.media_images[i].url : i \in 1..Len(p.media_images)}
    \cup {p.images[i].url : i \in 1..Len(p.images)}
    \cup {p.image_url, p.thumbnail_url, LinkOf(p)}

\* the raw pin has an id: any string or Number
IdPresent(p) == HasNumberId(p) \/ p.id # Null

\* rec is a record of the raw pin p: its image is one of p's urls and its
\* id is the string form of p's id when p has one (in the sense of has),
\* else its own image
RecordOf(rec, p, has(_)) ==
  /\ ~IsNullItem(p)
  /\ rec.image \in UrlsOf(p)
  /\ rec.id = IF has(p) THEN IdString(p) ELSE rec.image

\* the order-preserving ways of picking n of m positions
IncreasingMaps(n, m) ==
  {f \in [1..n -> 1..m] : \A i, j \in 1..n : i < j => f[i] < f[j]}

\* every record returned has a non-empty image and no random id, and the
\* records are, in order, records of distinct raw pins of the input
OutputFromRawPins(has(_)) ==
  (NormalizeDone /\ ~pure.threw) =>
    /\ \A k \in 1..Len(pure.result) :
         ~Falsy(pure.result[k].image) /\ pure.result[k].id # RandomId
    /\ \E f \in IncreasingMaps(Len(pure.result), Len(pure.arg.items)) :
         \A k \in 1..Len(pure.result) :
           RecordOf(pure.result[k], pure.arg.items[f[k]], has)

\* C22 (as stated): every record that leaves the normaliser (either
\* server's) has a non-empty image, and its id is the string form of the
\* upstream id or, when the upstream id is absent, its own image URL; the
\* random fallback id is in no output.
C22_IdFromRawPin == OutputFromRawPins(IdPresent)

\* C22 (amended): every record that leaves the normaliser has a non-empty
\* image, and its id is the string form of the upstream id when that id
\* is truthy, and its own image URL when the upstream id is absent or
\* falsy (null, the empty string, the Number 0); the random fallback id is
\* in no output.
C22_IdFromRawPinTruthy == OutputFromRawPins(IdTruthy)

\* a pin with the Number 7 as id, a pin without id and a pin with neither
\* id nor image give the records "7" and "ue"
C22_Witness ==
  /\ NormalizeDone /\ ~pure.threw
  /\ pure.arg.items = <<PinNumberId, PinNoId, PinBare>>
  /\ [k \in 1..Len(pure.result) |-> pure.result[k].id] = <<"7", "ue">>

\* the search request on slot r gets its response in this step
SearchAnswered(r) ==
  /\ SearchDone(req'[r])
  /\ req[r].pc # "done" \/ req'[r].hNo # req[r].hNo

\* C23: a step in which a search request gets a failure response (400, 500,
\* an upstream status, 502) leaves the cache as it was; the cache changes
\* only in a step in which a request gets a success response, and then
\* only the entry of that request's key changes; a request of
\* server/index.js answered from the upstream or from the mock sample
\* leaves under its key exactly the items the response carries.
C23_CacheWrittenOnSuccessOnly ==
  [][ /\ \A r \in ReqIds :
           /\ (SearchAnswered(r) /\ req'[r].status # 200) => cache' = cache
           /\ (SearchAnswered(r) /\ req'[r].route = "search"
                 /\ req'[r].source \in {"pinterest-v5", "mock"}) =>
                (/\ req'[r].key \in DOMAIN cache'
                 /\ cache'[req'[r].key].items = req'[r].items)
      /\ cache' # cache =>
           \E r \in ReqIds :
             /\ SearchAnswered(r) /\ req'[r].status = 200
             /\ req'[r].source \in {"pinterest-v5", "mock"}
             /\ DOMAIN cache' = DOMAIN cache \cup {req'[r].key}
             /\ cache'[req'[r].key].items = req'[r].items
             /\ \A k \in DOMAIN cache : k # req'[r].key => cache'[k] = cache[k]
    ]_vars

\* one search for cats/2 stored its items and was answered with them; a
\* search for the same key that went upstream was answered 502, and the
\* entry is still there
C23_Witness ==
  \E r, o \in ReqIds :
    /\ SearchDone(req[r]) /\ req[r].route = "search" /\ req[r].hCalled
    /\ req[r].status = 502 /\ req[r].key = req[o].key
    /\ SearchDone(req[o]) /\ req[o].status = 200 /\ req[o].source = "pinterest-v5"
    /\ DOMAIN cache = {req[o].key}
    /\ cache[req[o].key].items = req[o].items /\ req[o].items # <<>>

\* C24: every upstream call of a GET /api/me/pins request, boards page or
\* pins page, carries the token the handler read when the request started,
\* whatever the OAuth callback has made of the process-wide token since.
C24_TokenOfRequestStart ==
  \A r \in ReqIds :
    LET q == req[r]
    IN q.route = "mePins" =>
         /\ q.hTokens \subseteq {q.accessToken}
         /\ q.call.kind \in {"boards", "pins"} => q.call.token = q.accessToken
         /\ q.pc # "done" => ~Falsy(q.accessToken)

\* the aggregation started with the environment's token, the callback then
\* set another one, and the request went on to read a second boards page
\* and a board's pins with the token it started with
C24_Witness ==
  \E r \in ReqIds :
    LET q == req[r]
    IN /\ q.route = "mePins" /\ q.pc = "pAwait" /\ q.hLate
       /\ q.accessToken = "tokEnv" /\ dynamicAccessToken = "tokB"
       /\ Len(q.boards) = 2 /\ q.bi = 2
       /\ q.call.token = "tokEnv" /\ q.hTokens = {"tokEnv"}

\* a request being served gets its one response
GetsOneResponse(r) ==
  (req[r].route = "mePins") ~> (req[r].pc = "done" /\ req[r].hResponses = 1)

\* C21: every GET /api/me/pins request eventually sends exactly one
\* response, whatever the upstream does, when each outbound call settles
\* or has its timer fire.
C21_EventuallyOneResponse ==
  /\ [](\A r \in ReqIds : req[r].hResponses <= 1)
  /\ \A r \in ReqIds : GetsOneResponse(r)

\* the same when, moreover, every body awaited is delivered or fails
C21_OneResponseWhenBodiesSettle ==
  (\A r \in ReqIds : WF_vars(BodySettles(r))) =>
    /\ [](\A r \in ReqIds : req[r].hResponses <= 1)
    /\ \A r \in ReqIds : GetsOneResponse(r)

\* the request waits for the body of a board's first pins page: the call
\* has returned, no timer is armed, no response has been sent
C21_Witness ==
  \E r \in ReqIds :
    /\ req[r].route = "mePins" /\ req[r].pc = "pAwait"
    /\ req[r].call.kind = "body" /\ req[r].hResponses = 0
====
